---- MODULE Spec2Model ----
(***************************************************************************)
(* Bitcoin dashboard front end: the view router (router.js) and the review *)
(* chart controller (REVIEW_BTC_VS_GOLD.js and its sibling modules).       *)
(***************************************************************************)
EXTENDS Integers, Sequences, FiniteSets, TLC

(***************************************************************************)
(* ROUTE CONFIGURATION (router.js 14-103).  Object.entries(ROUTES) visits  *)
(* the keys in insertion order, which is the order of this sequence.       *)
(* Absent stands for a field that is null or was never written.            *)
(***************************************************************************)
Absent == "absent"

ROUTES == <<
    [path |-> "", tab |-> "home", subtab |-> Absent, subsubtab |-> Absent],
    [path |-> "revolution/history", tab |-> "revolution", subtab |-> "REVOLUTION_HISTORY", subsubtab |-> Absent],
    [path |-> "revolution/pioneers", tab |-> "revolution", subtab |-> "REVOLUTION_PIONEERS", subsubtab |-> Absent],
    [path |-> "revolution/whitepaper", tab |-> "revolution", subtab |-> "REVOLUTION_WHITEPAPER", subsubtab |-> Absent],
    [path |-> "network/structure", tab |-> "network", subtab |-> "NETWORK_STRUCTURE", subsubtab |-> Absent],
    [path |-> "network/technology", tab |-> "network", subtab |-> "NETWORK_TECHNOLOGY", subsubtab |-> Absent],
    [path |-> "network/nodes", tab |-> "network", subtab |-> "NETWORK_NODES", subsubtab |-> Absent],
    [path |-> "network/miners", tab |-> "network", subtab |-> "NETWORK_MINER", subsubtab |-> Absent],
    [path |-> "metrics/price", tab |-> "metrics", subtab |-> "METRICS_BTC_USD_EUR", subsubtab |-> Absent],
    [path |-> "metrics/difficulty", tab |-> "metrics", subtab |-> "METRICS_BTC_DIFFICULTY", subsubtab |-> Absent],
    [path |-> "metrics/difficulty/1y", tab |-> "metrics", subtab |-> "METRICS_BTC_DIFFICULTY", subsubtab |-> "METRICS_BTC_DIFFICULTY_1Y"],
    [path |-> "metrics/difficulty/5y", tab |-> "metrics", subtab |-> "METRICS_BTC_DIFFICULTY", subsubtab |-> "METRICS_BTC_DIFFICULTY_5Y"],
    [path |-> "metrics/difficulty/10y", tab |-> "metrics", subtab |-> "METRICS_BTC_DIFFICULTY", subsubtab |-> "METRICS_BTC_DIFFICULTY_10Y"],
    [path |-> "metrics/difficulty/ever", tab |-> "metrics", subtab |-> "METRICS_BTC_DIFFICULTY", subsubtab |-> "METRICS_BTC_DIFFICULTY_EVER"],
    [path |-> "metrics/tx-volume", tab |-> "metrics", subtab |-> "METRICS_BTC_TX_VOLUME", subsubtab |-> Absent],
    [path |-> "metrics/tx-volume/1h", tab |-> "metrics", subtab |-> "METRICS_BTC_TX_VOLUME", subsubtab |-> "METRICS_BTC_TX_VOLUME_1H"],
    [path |-> "metrics/tx-volume/24h", tab |-> "metrics", subtab |-> "METRICS_BTC_TX_VOLUME", subsubtab |-> "METRICS_BTC_TX_VOLUME_24H"],
    [path |-> "metrics/tx-volume/1w", tab |-> "metrics", subtab |-> "METRICS_BTC_TX_VOLUME", subsubtab |-> "METRICS_BTC_TX_VOLUME_1W"],
    [path |-> "metrics/tx-volume/1m", tab |-> "metrics", subtab |-> "METRICS_BTC_TX_VOLUME", subsubtab |-> "METRICS_BTC_TX_VOLUME_1M"],
    [path |-> "metrics/tx-volume/1y", tab |-> "metrics", subtab |-> "METRICS_BTC_TX_VOLUME", subsubtab |-> "METRICS_BTC_TX_VOLUME_1J"],
    [path |-> "metrics/tx-amount", tab |-> "metrics", subtab |-> "METRICS_BTC_TX_AMOUNT", subsubtab |-> Absent],
    [path |-> "metrics/tx-amount/mempool", tab |-> "metrics", subtab |-> "METRICS_BTC_TX_AMOUNT", subsubtab |-> "METRICS_BTC_TX_AMOUNT_NOW"],
    [path |-> "metrics/tx-amount/24h", tab |-> "metrics", subtab |-> "METRICS_BTC_TX_AMOUNT", subsubtab |-> "METRICS_BTC_TX_AMOUNT_24H"],
    [path |-> "metrics/tx-amount/1w", tab |-> "metrics", subtab |-> "METRICS_BTC_TX_AMOUNT", subsubtab |-> "METRICS_BTC_TX_AMOUNT_1W"],
    [path |-> "metrics/tx-amount/1m", tab |-> "metrics", subtab |-> "METRICS_BTC_TX_AMOUNT", subsubtab |-> "METRICS_BTC_TX_AMOUNT_1M"],
    [path |-> "metrics/tx-amount/1y", tab |-> "metrics", subtab |-> "METRICS_BTC_TX_AMOUNT", subsubtab |-> "METRICS_BTC_TX_AMOUNT_1Y"],
    [path |-> "metrics/tx-amount/halving", tab |-> "metrics", subtab |-> "METRICS_BTC_TX_AMOUNT", subsubtab |-> "METRICS_BTC_TX_AMOUNT_HALVING"],
    [path |-> "metrics/tx-amount/ever", tab |-> "metrics", subtab |-> "METRICS_BTC_TX_AMOUNT", subsubtab |-> "METRICS_BTC_TX_AMOUNT_EVER"],
    [path |-> "metrics/tx-fees", tab |-> "metrics", subtab |-> "METRICS_BTC_TX_FEES", subsubtab |-> Absent],
    [path |-> "metrics/tx-fees/24h", tab |-> "metrics", subtab |-> "METRICS_BTC_TX_FEES", subsubtab |-> "METRICS_BTC_TX_FEES_24H"],
    [path |-> "metrics/tx-fees/1w", tab |-> "metrics", subtab |-> "METRICS_BTC_TX_FEES", subsubtab |-> "METRICS_BTC_TX_FEES_1W"],
    [path |-> "metrics/tx-fees/1m", tab |-> "metrics", subtab |-> "METRICS_BTC_TX_FEES", subsubtab |-> "METRICS_BTC_TX_FEES_1M"],
    [path |-> "metrics/tx-fees/1y", tab |-> "metrics", subtab |-> "METRICS_BTC_TX_FEES", subsubtab |-> "METRICS_BTC_TX_FEES_1J"],
    [path |-> "metrics/hashrate", tab |-> "metrics", subtab |-> "METRICS_BTC_HASHRATE", subsubtab |-> Absent],
    [path |-> "metrics/hashrate/1y", tab |-> "metrics", subtab |-> "METRICS_BTC_HASHRATE", subsubtab |-> "METRICS_BTC_HASHRATE_1Y"],
    [path |-> "metrics/hashrate/5y", tab |-> "metrics", subtab |-> "METRICS_BTC_HASHRATE", subsubtab |-> "METRICS_BTC_HASHRATE_5Y"],
    [path |-> "metrics/hashrate/10y", tab |-> "metrics", subtab |-> "METRICS_BTC_HASHRATE", subsubtab |-> "METRICS_BTC_HASHRATE_10Y"],
    [path |-> "metrics/hashrate/ever", tab |-> "metrics", subtab |-> "METRICS_BTC_HASHRATE", subsubtab |-> "METRICS_BTC_HASHRATE_EVER"],
    [path |-> "review/btc-fiat", tab |-> "review", subtab |-> "REVIEW_BTC_VS_FIAT", subsubtab |-> Absent],
    [path |-> "review/btc-gold", tab |-> "review", subtab |-> "REVIEW_BTC_VS_GOLD", subsubtab |-> Absent],
    [path |-> "review/btc-silver", tab |-> "review", subtab |-> "REVIEW_BTC_VS_SILVER", subsubtab |-> Absent],
    [path |-> "review/tx-volume", tab |-> "review", subtab |-> "REVIEW_BTC_TX_VOLUME", subsubtab |-> Absent],
    [path |-> "review/tx-amount", tab |-> "review", subtab |-> "REVIEW_BTC_TX_AMOUNT", subsubtab |-> Absent],
    [path |-> "review/tx-fees", tab |-> "review", subtab |-> "REVIEW_BTC_TX_FEES", subsubtab |-> Absent],
    [path |-> "explorer/transaction", tab |-> "explorer", subtab |-> "EXPLORER_TXID", subsubtab |-> Absent],
    [path |-> "explorer/address", tab |-> "explorer", subtab |-> "EXPLORER_ADDRESS", subsubtab |-> Absent],
    [path |-> "explorer/wallet", tab |-> "explorer", subtab |-> "EXPLORER_WALLET", subsubtab |-> Absent],
    [path |-> "treasuries/companies", tab |-> "treasuries", subtab |-> "TREASURIES_COMPANIES", subsubtab |-> Absent],
    [path |-> "treasuries/institutions", tab |-> "treasuries", subtab |-> "TREASURIES_INSTITUTIONS", subsubtab |-> Absent],
    [path |-> "treasuries/countries", tab |-> "treasuries", subtab |-> "TREASURIES_COUNTRIES", subsubtab |-> Absent],
    [path |-> "market-cap/crypto", tab |-> "market_cap", subtab |-> "MARKET_CAP_COINS", subsubtab |-> Absent],
    [path |-> "market-cap/companies", tab |-> "market_cap", subtab |-> "MARKET_CAP_COMPANIES", subsubtab |-> Absent],
    [path |-> "market-cap/currencies", tab |-> "market_cap", subtab |-> "MARKET_CAP_CURRENCIES", subsubtab |-> Absent],
    [path |-> "market-cap/commodities", tab |-> "market_cap", subtab |-> "MARKET_CAP_COMMODITIES", subsubtab |-> Absent],
    [path |-> "indicators/pi-cycle-top", tab |-> "indicators", subtab |-> "INDICATORS_PI_CYCLE_TOP", subsubtab |-> Absent],
    [path |-> "indicators/golden-ratio", tab |-> "indicators", subtab |-> "INDICATORS_GOLDEN_RATIO", subsubtab |-> Absent],
    [path |-> "indicators/rainbow", tab |-> "indicators", subtab |-> "INDICATORS_RAINBOW_CHART", subsubtab |-> Absent],
    [path |-> "indicators/mayer-multiple", tab |-> "indicators", subtab |-> "INDICATORS_MAYER_MULTIPLE", subsubtab |-> Absent],
    [path |-> "indicators/stock-to-flow", tab |-> "indicators", subtab |-> "INDICATORS_STOCK_TO_FLOW", subsubtab |-> Absent],
    [path |-> "indicators/btc-vs-m2", tab |-> "indicators", subtab |-> "INDICATORS_BTC_M2", subsubtab |-> Absent],
    [path |-> "indicators/sp500-vs-btc", tab |-> "indicators", subtab |-> "INDICATORS_S&P500_BTC", subsubtab |-> Absent],
    [path |-> "info/status", tab |-> "info", subtab |-> "INFO_STATUS", subsubtab |-> Absent],
    [path |-> "info/traffic", tab |-> "info", subtab |-> "INFO_DASHBOARD_TRAFFIC", subsubtab |-> Absent],
    [path |-> "info/imprint", tab |-> "info", subtab |-> "INFO_IMPRESSUM", subsubtab |-> Absent]
>>

\* Property names every object literal inherits from Object.prototype:
\* ROUTES[key] finds them although they are not keys of the table.
ObjectPrototypeKeys ==
    {"constructor", "toString", "toLocaleString", "valueOf", "hasOwnProperty",
     "isPrototypeOf", "propertyIsEnumerable", "__proto__",
     "__defineGetter__", "__defineSetter__", "__lookupGetter__", "__lookupSetter__"}

\* setTimeout delays of routeTo, in milliseconds
SubtabDelay == 60
SubsubtabDelay == 140

(***************************************************************************)
(* Bounds of the model                                                     *)
(***************************************************************************)
TimeUnit == 60      \* milliseconds by which one Tick advances the clock
MaxEvents == 3      \* user events (clicks, back/forward, calls) after page load
MaxCalls == 2       \* loadReviewBtcVsGold calls in a behaviour
MaxChanges == 1     \* control events handled while loads are going on

(***************************************************************************)
(* Paths.  A path string is a sequence of tokens; the token "/" is one     *)
(* separator, any other token is a run of characters that neither starts   *)
(* nor ends with a separator.  Join gives the string itself.               *)
(***************************************************************************)
RECURSIVE Join(_)
Join(p) == IF p = <<>> THEN "" ELSE Head(p) \o Join(Tail(p))

\* path.replace(/^\/|\/$/g, ""): one leading separator and one trailing
\* separator (if a character is left for it) are removed.
StripSlashes(p) ==
    LET a == IF Len(p) > 0 /\ Head(p) = "/" THEN Tail(p) ELSE p
    IN  IF Len(a) > 0 /\ a[Len(a)] = "/" THEN SubSeq(a, 1, Len(a) - 1) ELSE a

\* Index of the table entry whose key is the string key, 0 when there is none
RouteIndex(key) ==
    IF \E i \in DOMAIN ROUTES : ROUTES[i].path = key
    THEN CHOOSE i \in DOMAIN ROUTES : ROUTES[i].path = key
    ELSE 0

IsRouteKey(key) == RouteIndex(key) # 0

\* ROUTES[cleanPath] followed by the destructuring { tab, subtab, subsubtab }:
\* an own entry, else an inherited (truthy) property without these fields,
\* else undefined.
RoutesGet(key) ==
    IF IsRouteKey(key)
    THEN LET r == ROUTES[RouteIndex(key)]
         IN  [truthy |-> TRUE, tab |-> r.tab, subtab |-> r.subtab, subsubtab |-> r.subsubtab]
    ELSE [truthy |-> key \in ObjectPrototypeKeys,
          tab |-> Absent, subtab |-> Absent, subsubtab |-> Absent]

\* A find that keeps the last match instead of the first
FindLast(field, id) ==
    LET S == {i \in DOMAIN ROUTES : ROUTES[i][field] = id}
    IN  IF S = {} THEN 0 ELSE CHOOSE i \in S : \A j \in S : i >= j

\* Object.entries(ROUTES).find(([_, r]) => r[field] === id): index of the
\* first match, or 0
FindFirst(field, id) ==
    LET S == {i \in DOMAIN ROUTES : ROUTES[i][field] = id}
    IN  IF S = {} THEN 0 ELSE CHOOSE i \in S : \A j \in S : i <= j

(***************************************************************************)
(* State                                                                   *)
(***************************************************************************)
VARIABLES
    routerActive,   \* window.__ROUTER_ACTIVE__
    history,        \* session history: [entries, cur], entries of {state, url}
    nav,            \* active {tab, subtab, subsubtab} of the page
    timers,         \* pending setTimeout callbacks of routeTo, oldest first
    missing,        \* controls that are absent from the page
    pc,             \* "loading" until DOMContentLoaded has run, then "ready"
    events,         \* number of user events handled so far
    applied,        \* record of the latest routeTo call (observation only)
    lastEvent       \* what the last step was and the clicks it dispatched

routerVars ==
    <<routerActive, history, nav, timers, missing, pc, events, applied, lastEvent>>

\* REVIEW_BTC_VS_GOLD.js
VARIABLES
    goldData,       \* the cache: [set, points]; set is FALSE while it is null
    chart,          \* the chart instance: [set, data, yType, unit, callback]
    initialized,    \* the module's initialized flag
    bound,          \* whether bindControls has assigned the control handlers
    canvas,         \* whether the page has the chart's canvas element
    dom,            \* the control elements: [present, handlers, hidden]
    fiat,           \* REVIEW_BTC_VS_FIAT.js: [cache, initialized, calls, fetches]
    calls,          \* the loadReviewBtcVsGold calls made, each with its position
    fetches,        \* number of fetch requests issued for the series file
    constructed,    \* number of Chart instances constructed
    state,          \* reviewGoldState
    yearOptions,    \* option values of the year select
    changes,        \* number of control events handled during loads
    render          \* what the last step was and what it computed (observation only)

loadVars == <<goldData, chart, initialized, bound, canvas, dom, fiat, calls, fetches, constructed,
              state, yearOptions, changes, render>>

\* history.state of an entry that was not pushed by the router
NoState == "no-state"

(***************************************************************************)
(* The page: its controls and what activating one does to the view.        *)
(***************************************************************************)
TabIds       == {ROUTES[i].tab : i \in DOMAIN ROUTES}
SubtabIds    == {ROUTES[i].subtab : i \in DOMAIN ROUTES} \ {Absent}
SubsubtabIds == {ROUTES[i].subsubtab : i \in DOMAIN ROUTES} \ {Absent}

Controls ==
    ({"tab"} \X TabIds) \cup ({"subtab"} \X SubtabIds) \cup ({"subsubtab"} \X SubsubtabIds)

\* document.querySelector of a control: whether the element is found
QuerySelector(level, id) == <<level, id>> \in Controls \ missing

\* The tab that shows subtab id, and the subtab that shows sub-subtab id
TabOf(id)    == ROUTES[FindFirst("subtab", id)].tab
SubtabOf(id) == ROUTES[FindFirst("subsubtab", id)].subtab

\* The page's own activation of a control (tab switch, showSubTab, sub-subtab
\* switch): the level activated is set and the levels below it are reset.
Activate(n, level, id) ==
    CASE level = "tab"       -> [tab |-> id, subtab |-> Absent, subsubtab |-> Absent]
      [] level = "subtab"    -> [n EXCEPT !.subtab = id, !.subsubtab = Absent]
      [] level = "subsubtab" -> [n EXCEPT !.subsubtab = id]

(***************************************************************************)
(* history.pushState({ path }, "", "/" + path)                             *)
(***************************************************************************)
\* A pushState whose address lacks the leading slash
PushStateWithoutSlash(h, path) ==
    [entries |-> Append(SubSeq(h.entries, 1, h.cur), [state |-> path, url |-> <<"", path>>]),
     cur     |-> h.cur + 1]

PushState(h, path) ==
    [entries |-> Append(SubSeq(h.entries, 1, h.cur), [state |-> path, url |-> <<"/", path>>]),
     cur     |-> h.cur + 1]

(***************************************************************************)
(* The three click listeners on document (router.js 196-263).  Each one    *)
(* returns the history it leaves.                                          *)
(***************************************************************************)
TabClickListener(h, level, id) ==
    IF level # "tab" THEN h
    ELSE LET entry == FindFirst("tab", id)
         IN  IF entry # 0 THEN PushState(h, ROUTES[entry].path) ELSE h

SubtabClickListener(h, level, id) ==
    IF level # "subtab" THEN h
    ELSE LET entry == FindFirst("subtab", id)
         IN  IF entry # 0 THEN PushState(h, ROUTES[entry].path) ELSE h

\* The sub-subtab listener comparing the wrong field of the entries
SubsubtabListenerWrongField(h, flag, level, id) ==
    IF level # "subsubtab" THEN h
    ELSE IF flag THEN h
    ELSE LET entry == FindFirst("subtab", id)
         IN  IF entry # 0 THEN PushState(h, ROUTES[entry].path) ELSE h

SubsubtabClickListener(h, flag, level, id) ==
    IF level # "subsubtab" THEN h
    ELSE IF flag THEN h
    ELSE LET entry == FindFirst("subsubtab", id)
         IN  IF entry # 0 THEN PushState(h, ROUTES[entry].path) ELSE h

(***************************************************************************)
(* A machine state S is [flag, history, nav, timers, clicks, acts]; clicks *)
(* and acts log what one step did.  DispatchClick is element.click() or a  *)
(* user's click: the page activates the control, then the listeners run.   *)
(***************************************************************************)
DispatchClick(S, level, id) ==
    LET h1 == TabClickListener(S.history, level, id)
        h2 == SubtabClickListener(h1, level, id)
        h3 == SubsubtabClickListener(h2, S.flag, level, id)
    IN  [S EXCEPT !.nav     = Activate(@, level, id),
                  !.history = h3,
                  !.clicks  = Append(@, [level |-> level, id |-> id, flag |-> S.flag,
                                         pushed |-> h3 # S.history]),
                  !.acts    = Append(@, [level |-> level, id |-> id, flag |-> S.flag])]

\* showSubTab(subBtn): the page's subtab activation, called without a click
ShowSubTab(S, id) ==
    [S EXCEPT !.nav  = Activate(@, "subtab", id),
              !.acts = Append(@, [level |-> "subtab", id |-> id, flag |-> S.flag])]

\* setTimeout with the two delays of routeTo exchanged
TimerSwapped(kind, target, delay) ==
    [kind |-> kind, target |-> target, rem |-> SubtabDelay + SubsubtabDelay - delay, own |-> TRUE]

\* setTimeout(callback, delay)
Timer(kind, target, delay) == [kind |-> kind, target |-> target, rem |-> delay, own |-> TRUE]

(***************************************************************************)
(* routeTo(path), router.js 109-163: the synchronous part of the call.     *)
(***************************************************************************)
RouteTo(S, path) ==
    LET cleanPath == Join(StripSlashes(path))
        route     == RoutesGet(cleanPath)
    IN  IF ~route.truthy THEN S
        ELSE LET S1 == [S EXCEPT !.flag = TRUE]
             IN  IF ~QuerySelector("tab", route.tab) THEN S1
                 ELSE LET S2 == DispatchClick(S1, "tab", route.tab)
                          S3 == IF route.subtab # Absent
                                THEN [S2 EXCEPT !.timers =
                                        Append(@, Timer("subtab", route.subtab, SubtabDelay))]
                                ELSE S2
                      IN  IF route.subsubtab # Absent
                          THEN [S3 EXCEPT !.timers =
                                  Append(@, Timer("subsubtab", route.subsubtab, SubsubtabDelay))]
                          ELSE [S3 EXCEPT !.flag = FALSE]

\* The callbacks, the second one without its btn.click()
RunTimerNoClick(S, t) ==
    IF t.kind = "subtab"
    THEN IF QuerySelector("subtab", t.target) THEN ShowSubTab(S, t.target) ELSE S
    ELSE [S EXCEPT !.flag = FALSE]

\* The callbacks routeTo schedules (router.js 130-140 and 145-158)
RunTimer(S, t) ==
    IF t.kind = "subtab"
    THEN IF QuerySelector("subtab", t.target) THEN ShowSubTab(S, t.target) ELSE S
    ELSE LET S1 == IF QuerySelector("subsubtab", t.target)
                   THEN DispatchClick(S, "subsubtab", t.target)
                   ELSE S
         IN  [S1 EXCEPT !.flag = FALSE]

(***************************************************************************)
(* Inputs of the router behaviours                                         *)
(***************************************************************************)
\* location.pathname values the page is loaded with
Locations ==
    { <<"/">>,
      <<"/", "metrics/tx-amount/24h", "/">>,
      <<"/", "foo/bar">>,
      <<"/", "constructor">> }

\* arguments of direct routeTo calls
CallPaths ==
    { <<"metrics/tx-amount">>, <<"/", "metrics/tx-amount/1w">>, <<"foo/bar">>, <<"toString">> }

\* controls the user clicks
UserTabs       == {"home", "metrics"}
UserSubtabs    == {"METRICS_BTC_USD_EUR", "METRICS_BTC_TX_AMOUNT"}
UserSubsubtabs == {"METRICS_BTC_TX_AMOUNT_24H"}

\* pages with a control left out
MissingChoices == { {}, {<<"tab", "metrics">>} }

(***************************************************************************)
(* Steps                                                                   *)
(***************************************************************************)
Cur == [flag |-> routerActive, history |-> history, nav |-> nav, timers |-> timers,
        clicks |-> <<>>, acts |-> <<>>]

Snapshot(S) == [flag |-> S.flag, history |-> S.history, nav |-> S.nav, timers |-> S.timers]

\* location.pathname is the address of the current history entry
Location == history.entries[history.cur].url

NoCall == [called |-> FALSE, path |-> "", solo |-> FALSE, pushed |-> FALSE, acts |-> <<>>]

Event(kind, call, path, S0, S1) ==
    [kind |-> kind, call |-> call, path |-> path, clicks |-> S1.clicks,
     noop |-> Snapshot(S1) = Snapshot(S0)]

Commit(S) ==
    /\ routerActive' = S.flag
    /\ history' = S.history
    /\ nav' = S.nav
    /\ timers' = S.timers

\* A routeTo call made from machine state S; S1 is the state the call leaves
Call(S, path, kind) ==
    \E S0 \in {[S EXCEPT !.timers = [k \in DOMAIN @ |-> [@[k] EXCEPT !.own = FALSE]]]} :
    \E S1 \in {RouteTo(S0, path)} :
        /\ Commit(S1)
        /\ lastEvent' = Event(kind, TRUE, Join(StripSlashes(path)), S0, S1)
        /\ applied' = [called |-> TRUE,
                       path   |-> Join(StripSlashes(path)),
                       solo   |-> S.timers = <<>>,
                       pushed |-> S1.history # S.history,
                       acts   |-> S1.acts]

\* No routeTo call in this step, which takes the machine from S0 to S1
NoCallStep(S0, S1, kind) ==
    /\ Commit(S1)
    /\ lastEvent' = Event(kind, FALSE, "", S0, S1)

\* One more user event, while the bound allows it
UserEvent ==
    /\ pc = "ready"
    /\ events < MaxEvents
    /\ events' = events + 1
    /\ UNCHANGED <<missing, pc, loadVars>>

\* document "DOMContentLoaded" listener (router.js 181-189)
DOMContentLoaded ==
    /\ pc = "loading"
    /\ pc' = "ready"
    /\ UNCHANGED <<missing, events, loadVars>>
    /\ \E path \in {Join(StripSlashes(Location))} :
           IF RoutesGet(path).truthy
           THEN Call(Cur, <<path>>, "load")
           ELSE NoCallStep(Cur, Cur, "load") /\ UNCHANGED applied

\* a call of the global function routeTo
CallRouteTo ==
    /\ UserEvent
    /\ \E path \in CallPaths : Call(Cur, path, "call")

\* A popstate listener that tests the path for truth and so skips the empty
\* path of the home route
PopStateSkipsEmptyPath ==
    /\ UserEvent
    /\ \E to \in {history.cur - 1, history.cur + 1} :
         /\ to \in DOMAIN history.entries
         /\ \E S \in {[Cur EXCEPT !.history.cur = to]} :
            \E e \in {history.entries[to]} :
                IF e.state # NoState /\ e.state # ""
                THEN Call(S, <<e.state>>, "popstate")
                ELSE NoCallStep(S, S, "popstate") /\ applied' = [applied EXCEPT !.solo = FALSE]

\* window "popstate" listener (router.js 170-174), after the browser has moved
\* to the neighbouring history entry
PopState ==
    /\ UserEvent
    /\ \E to \in {history.cur - 1, history.cur + 1} :
         /\ to \in DOMAIN history.entries
         /\ \E S \in {[Cur EXCEPT !.history.cur = to]} :
            \E e \in {history.entries[to]} :
                IF e.state # NoState
                THEN Call(S, <<e.state>>, "popstate")
                ELSE NoCallStep(S, S, "popstate") /\ applied' = [applied EXCEPT !.solo = FALSE]

\* The user clicks a control that is on the page and shown by the active view
UserClick(level, id) ==
    /\ UserEvent
    /\ QuerySelector(level, id)
    /\ \E S1 \in {DispatchClick(Cur, level, id)} : NoCallStep(Cur, S1, "click")
    /\ applied' = [applied EXCEPT !.solo = FALSE]

ClickTab == \E id \in UserTabs : UserClick("tab", id)

ClickSubtab == \E id \in UserSubtabs : TabOf(id) = nav.tab /\ UserClick("subtab", id)

ClickSubsubtab ==
    \E id \in UserSubsubtabs : SubtabOf(id) = nav.subtab /\ UserClick("subsubtab", id)

\* The pending timer that is due first (the older one of two due together)
NextTimer ==
    CHOOSE k \in DOMAIN timers :
        \A j \in DOMAIN timers :
            timers[k].rem < timers[j].rem \/ (timers[k].rem = timers[j].rem /\ k <= j)

Remove(seq, k) == SubSeq(seq, 1, k - 1) \o SubSeq(seq, k + 1, Len(seq))

FireTimer ==
    /\ timers # <<>>
    /\ timers[NextTimer].rem <= 0
    /\ \E t \in {timers[NextTimer]} :
       \E S0 \in {[Cur EXCEPT !.timers = Remove(@, NextTimer)]} :
       \E S1 \in {RunTimer(S0, t)} :
         /\ NoCallStep(S0, S1, "timer")
         /\ applied' = IF t.own
                       THEN [applied EXCEPT !.acts = @ \o S1.acts,
                                            !.pushed = @ \/ S1.history # history]
                       ELSE applied
    /\ UNCHANGED <<missing, pc, events, loadVars>>

\* Time passes while no timer is due
Tick ==
    /\ timers # <<>>
    /\ \A k \in DOMAIN timers : timers[k].rem > 0
    /\ timers' = [k \in DOMAIN timers |-> [timers[k] EXCEPT !.rem = @ - TimeUnit]]
    /\ lastEvent' = [kind |-> "tick", call |-> FALSE, path |-> "", clicks |-> <<>>, noop |-> FALSE]
    /\ UNCHANGED <<routerActive, history, nav, missing, pc, events, applied, loadVars>>

\* The session history of a page opened at "/"
FreshHistory == [entries |-> <<[state |-> NoState, url |-> <<"/">>]>>, cur |-> 1]

DefaultView == [tab |-> "home", subtab |-> Absent, subsubtab |-> Absent]

RouterStart ==
    /\ routerActive = FALSE
    /\ nav = DefaultView
    /\ timers = <<>>
    /\ applied = NoCall
    /\ lastEvent = [kind |-> "init", call |-> FALSE, path |-> "", clicks |-> <<>>, noop |-> TRUE]

\* The elements bindControls looks up by id, 467-510: the six controls and
\* the three containers of the mode's own controls
ControlIds ==
    {"review-gold-time-mode-select", "review-gold-year-select", "review-gold-halving-select",
     "review-gold-log-toggle", "review-gold-date-start", "review-gold-date-end"}

GroupIds ==
    {"review-gold-year-control", "review-gold-halving-control", "review-gold-custom-control"}

\* A page that has every element, no handler assigned yet, the three
\* containers hidden
FullPage == [present |-> ControlIds \cup GroupIds, handlers |-> {}, hidden |-> GroupIds]

\* REVIEW_BTC_VS_FIAT.js (src/unnamed/part_000) 25-32: the cache slots of usd,
\* eur and jpy are null and the module is not initialized.  A slot is <<>>
\* while it is null, else <<n>> for the series the n-th request of its file
\* delivered.
FiatStart ==
    [cache |-> <<<<>>, <<>>, <<>>>>, initialized |-> FALSE, calls |-> <<>>,
     fetches |-> <<0, 0, 0>>]

\* REVIEW_BTC_VS_GOLD.js 37-39: the module as it is after the script has run
ModuleStart ==
    /\ fiat = FiatStart
    /\ goldData = [set |-> FALSE, points |-> <<>>]
    /\ chart = [set |-> FALSE, data |-> <<>>, yType |-> "none", unit |-> "none",
                callback |-> "none"]
    /\ initialized = FALSE
    /\ bound = FALSE
    /\ calls = <<>>
    /\ fetches = 0
    /\ constructed = 0
    /\ state = [timeMode |-> "all", year |-> <<>>, halvingCycle |-> <<>>, logScale |-> TRUE,
                customStart |-> <<>>, customEnd |-> <<>>]
    /\ yearOptions = {}
    /\ changes = 0
    /\ render = [by |-> "none", ctl |-> "none", had |-> FALSE, threw |-> FALSE, out |-> <<>>,
                 overlay |-> [shown |-> FALSE, perf |-> [kind |-> "none", num |-> 0, den |-> 1],
                              colour |-> "none"],
                 axis |-> [unit |-> "none", callback |-> "none"]]

LoadStart ==
    /\ dom = FullPage
    /\ ModuleStart

RouterInit ==
    /\ canvas = TRUE
    /\ LoadStart
    /\ \E loc \in Locations : history = [entries |-> <<[state |-> NoState, url |-> loc]>>, cur |-> 1]
    /\ missing \in MissingChoices
    /\ pc = "loading"
    /\ events = 0
    /\ RouterStart

RouterNext ==
    \/ DOMContentLoaded
    \/ CallRouteTo
    \/ PopState
    \/ ClickTab
    \/ ClickSubtab
    \/ ClickSubsubtab
    \/ FireTimer
    \/ Tick

vars == <<routerVars, loadVars>>

RouterSpec == RouterInit /\ [][RouterNext]_vars

(***************************************************************************)
(* One application of one path of the table on a complete page, followed   *)
(* by clicks on the deepest control the route names.                       *)
(***************************************************************************)
\* The triple of a table entry, and the levels it specifies, top down
\* The view of an entry with its sub-subtab left out
TripleWithoutSubsubtab(r) == [tab |-> r.tab, subtab |-> r.subtab, subsubtab |-> Absent]

Triple(r) == [tab |-> r.tab, subtab |-> r.subtab, subsubtab |-> r.subsubtab]

Levels(r) ==
    <<"tab">> \o (IF r.subtab # Absent THEN <<"subtab">> ELSE <<>>)
              \o (IF r.subsubtab # Absent THEN <<"subsubtab">> ELSE <<>>)

Deepest(r) == Levels(r)[Len(Levels(r))]

ApplyInit ==
    /\ canvas = TRUE
    /\ LoadStart
    /\ history = FreshHistory
    /\ missing = {}
    /\ pc = "ready"
    /\ events = 0
    /\ RouterStart

\* routeTo is called once, with a path of the table in one of its spellings
ApplyPath ==
    /\ ~applied.called
    /\ \E i \in DOMAIN ROUTES :
       \E path \in {<<ROUTES[i].path>>, <<"/", ROUTES[i].path, "/">>} :
           Call(Cur, path, "call")
    /\ UNCHANGED <<missing, pc, events, loadVars>>

\* After the application, the user clicks the deepest control of the route
ClickDeepest ==
    /\ applied.called
    /\ timers = <<>>
    /\ \E r \in {ROUTES[RouteIndex(applied.path)]} : UserClick(Deepest(r), r[Deepest(r)])

ApplyNext ==
    \/ ApplyPath
    \/ FireTimer
    \/ Tick
    \/ ClickDeepest

ApplySpec == ApplyInit /\ [][ApplyNext]_vars

\* Timers run and time passes: the browser's event loop does not stop
ApplyFairSpec == ApplySpec /\ WF_vars(FireTimer) /\ WF_vars(Tick)

(***************************************************************************)
(* The review chart controller, REVIEW_BTC_VS_GOLD.js.                     *)
(*                                                                         *)
(* Values that may be null are sequences: Null, or Some(v).                *)
(***************************************************************************)
Null == <<>>
Some(v) == <<v>>

\* JavaScript truthiness of a nullable number and of a nullable string
TruthyNumber(f) == f # Null /\ f[1] # 0
TruthyString(f) == f # Null /\ f[1] # ""

(***************************************************************************)
(* Dates.  An instant is [day, ms]: whole days since 1970-01-01 UTC and    *)
(* the milliseconds into that day.                                         *)
(***************************************************************************)
\* milliseconds of one day
DayMs == 86400000

T(day, ms) == [day |-> day, ms |-> ms]

\* a <= b and a >= b on instants (Date comparison by valueOf)
AtMost(a, b)  == a.day < b.day \/ (a.day = b.day /\ a.ms <= b.ms)
AtLeast(a, b) == AtMost(b, a)

\* new Date(t.getTime() + n) for 0 <= n < DayMs
AddMs(t, n) ==
    IF t.ms + n >= DayMs THEN T(t.day + 1, t.ms + n - DayMs) ELSE T(t.day, t.ms + n)

IsLeap(y) == (y % 4 = 0 /\ y % 100 # 0) \/ y % 400 = 0

\* day number of January 1st of year y
YearStart(y) ==
    365 * (y - 1970) + (y - 1969) \div 4 - (y - 1901) \div 100 + (y - 1601) \div 400

DaysBeforeMonth(y, m) ==
    <<0, 31, 59, 90, 120, 151, 181, 212, 243, 273, 304, 334>>[m]
        + (IF m > 2 /\ IsLeap(y) THEN 1 ELSE 0)

\* The year, month and day a date text "YYYY-MM-DD" spells
DateFields(s) ==
    CASE s = "2009-01-03" -> <<2009, 1, 3>>
      [] s = "2012-11-27" -> <<2012, 11, 27>>
      [] s = "2012-11-28" -> <<2012, 11, 28>>
      [] s = "2012-11-29" -> <<2012, 11, 29>>
      [] s = "2012-12-31" -> <<2012, 12, 31>>
      [] s = "2013-01-01" -> <<2013, 1, 1>>
      [] s = "2013-06-01" -> <<2013, 6, 1>>
      [] s = "2013-06-02" -> <<2013, 6, 2>>
      [] s = "2013-11-27" -> <<2013, 11, 27>>
      [] s = "2013-11-28" -> <<2013, 11, 28>>
      [] s = "2016-07-09" -> <<2016, 7, 9>>
      [] s = "2017-11-26" -> <<2017, 11, 26>>
      [] s = "2017-11-27" -> <<2017, 11, 27>>
      [] s = "2020-05-11" -> <<2020, 5, 11>>
      [] s = "2024-04-20" -> <<2024, 4, 20>>

\* new Date("YYYY-MM-DD"): midnight UTC of that day
NewDate(s) ==
    LET f == DateFields(s)
    IN  T(YearStart(f[1]) + DaysBeforeMonth(f[1], f[2]) + f[3] - 1, 0)

\* A year read off the day count with every year taken as 365 days
GetFullYearNoLeapDays(t) == 1970 + t.day \div 365

\* Date.prototype.getUTCFullYear
GetUTCFullYear(t) ==
    LET y == 1970 + t.day \div 365
    IN  IF YearStart(y) <= t.day THEN y ELSE y - 1

\* A comparison that counts a span of exactly n years as below n
DiffYearsAtMost(start, end, n) ==
    LET dd == end.day - start.day
        dm == end.ms - start.ms
    IN  dd < 365 * n \/ (dd = 365 * n /\ dm <= 0)

\* diffYears(start, end) < n, with diffYears = (end - start) / (365 days in ms)
DiffYearsBelow(start, end, n) ==
    LET dd == end.day - start.day
        dm == end.ms - start.ms
    IN  dd < 365 * n \/ (dd = 365 * n /\ dm < 0)

\* HALVING_RANGES: start and end date text of each cycle, end null for the
\* running one
HALVING_RANGES ==
    [k \in {"2009_2012", "2012_2016", "2016_2020", "2020_2024", "2024_now"} |->
        CASE k = "2009_2012" -> <<"2009-01-03", Some("2012-11-28")>>
          [] k = "2012_2016" -> <<"2012-11-28", Some("2016-07-09")>>
          [] k = "2016_2020" -> <<"2016-07-09", Some("2020-05-11")>>
          [] k = "2020_2024" -> <<"2020-05-11", Some("2024-04-20")>>
          [] k = "2024_now"  -> <<"2024-04-20", Null>>]

\* reviewGoldState as the script creates it
InitialState ==
    [timeMode |-> "all", year |-> Null, halvingCycle |-> Null, logScale |-> TRUE,
     customStart |-> Null, customEnd |-> Null]

\* clampDateOrder(start, end) on two Date objects (objects are truthy)
ClampDateOrderSwapOff(start, end) == [start |-> start, end |-> end]

ClampDateOrder(start, end) ==
    IF ~AtMost(start, end) THEN [start |-> end, end |-> start]
    ELSE [start |-> start, end |-> end]

\* Array.prototype.filter: the elements whose index is in K, in order
RECURSIVE KeepFrom(_, _, _)
KeepFrom(data, K, i) ==
    IF i > Len(data) THEN <<>>
    ELSE (IF i \in K THEN <<data[i]>> ELSE <<>>) \o KeepFrom(data, K, i + 1)

\* A filter that hands back the kept elements newest first
FilterNewestFirst(data, K) ==
    LET kept == KeepFrom(data, K, 1)
    IN  [i \in 1..Len(kept) |-> kept[Len(kept) + 1 - i]]

Filter(data, K) == KeepFrom(data, K, 1)

\* The year block without its test of the mode
YearBlockAnyMode(out, st) ==
    IF TruthyNumber(st.year)
    THEN Filter(out, {i \in DOMAIN out : GetUTCFullYear(out[i].x) = st.year[1]})
    ELSE out

\* The three filter blocks of filterData, each the sequence it leaves
YearBlock(out, st) ==
    IF st.timeMode = "year" /\ TruthyNumber(st.year)
    THEN Filter(out, {i \in DOMAIN out : GetUTCFullYear(out[i].x) = st.year[1]})
    ELSE out

\* The halving block with a range that stops short of its end instant
HalvingBlockExclusiveEnd(out, st) ==
    IF st.timeMode = "halving" /\ TruthyString(st.halvingCycle)
    THEN LET r     == HALVING_RANGES[st.halvingCycle[1]]
             start == NewDate(r[1])
         IN  Filter(out, {i \in DOMAIN out :
                            /\ AtLeast(out[i].x, start)
                            /\ r[2] = Null \/ ~AtLeast(out[i].x, NewDate(r[2][1]))})
    ELSE out

HalvingBlock(out, st) ==
    IF st.timeMode = "halving" /\ TruthyString(st.halvingCycle)
    THEN LET r     == HALVING_RANGES[st.halvingCycle[1]]
             start == NewDate(r[1])
         IN  Filter(out, {i \in DOMAIN out :
                            /\ AtLeast(out[i].x, start)
                            /\ r[2] = Null \/ AtMost(out[i].x, NewDate(r[2][1]))})
    ELSE out

\* The custom block with the end bound left at midnight
CustomBlockMidnightEnd(out, st) ==
    IF st.timeMode = "custom" /\ TruthyString(st.customStart) /\ TruthyString(st.customEnd)
    THEN LET c == ClampDateOrder(NewDate(st.customStart[1]), NewDate(st.customEnd[1]))
         IN  Filter(out, {i \in DOMAIN out :
                            AtLeast(out[i].x, c.start) /\ AtMost(out[i].x, c.end)})
    ELSE out

CustomBlock(out, st) ==
    IF st.timeMode = "custom" /\ TruthyString(st.customStart) /\ TruthyString(st.customEnd)
    THEN LET c   == ClampDateOrder(NewDate(st.customStart[1]), NewDate(st.customEnd[1]))
             end == AddMs(c.end, DayMs - 1)
         IN  Filter(out, {i \in DOMAIN out :
                            AtLeast(out[i].x, c.start) /\ AtMost(out[i].x, end)})
    ELSE out

\* Destructuring const [s,e] = HALVING_RANGES[id] throws a TypeError when the
\* id is no key of the catalog
FilterThrows(st) ==
    /\ st.timeMode = "halving"
    /\ TruthyString(st.halvingCycle)
    /\ st.halvingCycle[1] \notin DOMAIN HALVING_RANGES

\* filterData(): [threw, data]
FilterData(data, st) ==
    IF FilterThrows(st) THEN [threw |-> TRUE, data |-> <<>>]
    ELSE [threw |-> FALSE,
          data  |-> CustomBlock(HalvingBlock(YearBlock(data, st), st), st)]

\* getTimeScaleConfig(data): the unit and the label form of its callback
GetTimeScaleConfig(data, st) ==
    IF Len(data) = 0 THEN [unit |-> "month", callback |-> "none"]
    ELSE CASE st.timeMode = "all"     -> [unit |-> "quarter", callback |-> "Qn YYYY"]
           [] st.timeMode = "year"    -> [unit |-> "month", callback |-> "Mon"]
           [] st.timeMode = "halving" -> [unit |-> "month", callback |-> "Mon YY"]
           [] st.timeMode = "custom"  ->
                IF DiffYearsBelow(data[1].x, data[Len(data)].x, 1)
                THEN [unit |-> "month", callback |-> "Mon"]
                ELSE IF DiffYearsBelow(data[1].x, data[Len(data)].x, 5)
                THEN [unit |-> "quarter", callback |-> "Qn 'YY"]
                ELSE [unit |-> "year", callback |-> "YYYY"]
           [] OTHER -> [unit |-> "month", callback |-> "none"]

(***************************************************************************)
(* The series file is newline-delimited JSON.  A line of a payload is      *)
(* either the JSON text of a point, its date given as a day and the time   *)
(* into that day, or text JSON.parse rejects.                              *)
(***************************************************************************)
Point(date, ms, v) == [ok |-> TRUE, date |-> date, ms |-> ms, value |-> v]
BadLine            == [ok |-> FALSE, date |-> "", ms |-> 0, value |-> 0]

\* File contents the server may deliver
Payloads ==
    { <<Point("2012-11-27", DayMs - 1, 100), Point("2012-11-28", 0, 150),
        Point("2012-11-28", DayMs - 1, 120), Point("2012-11-29", 0, 90),
        Point("2016-07-09", 0, 300), Point("2020-05-11", 0, 600)>>,
      <<Point("2012-11-28", 0, 100), Point("2012-12-31", DayMs - 1, 150),
        Point("2013-01-01", 0, 140), Point("2013-11-27", DayMs - 1, 80),
        Point("2013-11-28", 0, 100), Point("2017-11-26", DayMs - 1, 700),
        Point("2017-11-27", 0, 800), Point("2024-04-20", 0, 0)>>,
      <<Point("2012-11-28", 0, 100), BadLine>>,
      <<>> }

\* txt.split('\n') of the trimmed text: an empty text is one empty line
SplitLines(body) == IF body = <<>> THEN <<BadLine>> ELSE body

\* A parse that fails only when no line can be read
ParseOkAnyLine(body) == \E k \in DOMAIN SplitLines(body) : SplitLines(body)[k].ok

\* Whether .map(l => JSON.parse(l)) runs through, and the points it gives
ParseOk(body)     == \A k \in DOMAIN SplitLines(body) : SplitLines(body)[k].ok
ParsePoints(body) ==
    [k \in DOMAIN body |->
        [x |-> IF body[k].ok THEN AddMs(NewDate(body[k].date), body[k].ms) ELSE T(0, 0),
         y |-> body[k].value]]

\* <option value="${y}">: the decimal text of a year, and Number(text)
YearText(y) ==
    CASE y = 2012 -> "2012" [] y = 2013 -> "2013" [] y = 2016 -> "2016" [] y = 2017 -> "2017"
      [] y = 2020 -> "2020" [] y = 2024 -> "2024"

NumberOf(s) ==
    CASE s = "2012" -> 2012 [] s = "2013" -> 2013 [] s = "2016" -> 2016 [] s = "2017" -> 2017
      [] s = "2020" -> 2020 [] s = "2024" -> 2024
      [] s = "" -> 0

\* populateYearSelect(): the option values it writes, or the ones it leaves
PopulateYearSelect(data, options) ==
    IF ~data.set \/ Len(data.points) = 0 THEN options
    ELSE IF "review-gold-year-select" \notin dom.present THEN options
    ELSE {YearText(GetUTCFullYear(data.points[k].x)) : k \in DOMAIN data.points}

YType(st) == IF st.logScale THEN "logarithmic" ELSE "linear"

NoChart == [set |-> FALSE, data |-> <<>>, yType |-> "none", unit |-> "none", callback |-> "none"]

\* updateChart() whose update branch constructs the chart again
UpdateChartRebuild(C) ==
    IF ~canvas \/ ~C.goldData.set THEN C
    ELSE LET f == FilterData(C.goldData.points, C.st)
         IN  IF f.threw THEN [C EXCEPT !.threw = TRUE]
             ELSE IF Len(f.data) = 0 THEN C
             ELSE LET cfg == GetTimeScaleConfig(f.data, C.st)
                  IN  [C EXCEPT !.chart = [set |-> TRUE, data |-> f.data, yType |-> YType(C.st),
                                           unit |-> cfg.unit, callback |-> cfg.callback],
                                !.constructed = @ + 1]

\* updateChart() whose update branch leaves the dataset of the chart as it is
UpdateChartKeepsDataset(C) ==
    IF ~canvas \/ ~C.goldData.set THEN C
    ELSE LET f == FilterData(C.goldData.points, C.st)
         IN  IF f.threw THEN [C EXCEPT !.threw = TRUE]
             ELSE IF Len(f.data) = 0 THEN C
             ELSE LET cfg == GetTimeScaleConfig(f.data, C.st)
                  IN  IF ~C.chart.set
                      THEN [C EXCEPT !.chart = [set |-> TRUE, data |-> f.data,
                                                yType |-> YType(C.st),
                                                unit |-> cfg.unit, callback |-> cfg.callback],
                                     !.constructed = @ + 1]
                      ELSE [C EXCEPT !.chart.yType = YType(C.st)]

\* updateChart() without the return on an empty slice
UpdateChartDrawsEmpty(C) ==
    IF ~canvas \/ ~C.goldData.set THEN C
    ELSE LET f == FilterData(C.goldData.points, C.st)
         IN  IF f.threw THEN [C EXCEPT !.threw = TRUE]
             ELSE LET cfg == GetTimeScaleConfig(f.data, C.st)
                  IN  IF ~C.chart.set
                      THEN [C EXCEPT !.chart = [set |-> TRUE, data |-> f.data,
                                                yType |-> YType(C.st),
                                                unit |-> cfg.unit, callback |-> cfg.callback],
                                     !.constructed = @ + 1]
                      ELSE [C EXCEPT !.chart.data = f.data, !.chart.yType = YType(C.st)]

\* updateChart(), REVIEW_BTC_VS_GOLD.js 327-460: the chart and the number of
\* constructions it leaves, and whether it threw
UpdateChart(C) ==
    IF ~canvas \/ ~C.goldData.set THEN C
    ELSE LET f == FilterData(C.goldData.points, C.st)
         IN  IF f.threw THEN [C EXCEPT !.threw = TRUE]
             ELSE IF Len(f.data) = 0 THEN C
             ELSE LET cfg == GetTimeScaleConfig(f.data, C.st)
                  IN  IF ~C.chart.set
                      THEN [C EXCEPT !.chart = [set |-> TRUE, data |-> f.data,
                                                yType |-> YType(C.st),
                                                unit |-> cfg.unit, callback |-> cfg.callback],
                                     !.constructed = @ + 1]
                      ELSE [C EXCEPT !.chart.data = f.data, !.chart.yType = YType(C.st)]

CurChart == [goldData |-> goldData, chart |-> chart, constructed |-> constructed,
             st |-> state, threw |-> FALSE]

SetChart(C) ==
    /\ chart' = C.chart
    /\ constructed' = C.constructed

\* calculatePerformance(data), 256-264: null for an empty slice, else the
\* number ((e - s) / s) * 100 as the fraction num / den with den > 0, or what
\* the division by a first value of 0 gives
CalculatePerformance(data) ==
    IF Len(data) = 0 THEN [kind |-> "null", num |-> 0, den |-> 1]
    ELSE LET s == data[1].y
             e == data[Len(data)].y
         IN  IF s = 0
             THEN [kind |-> IF e = 0 THEN "NaN" ELSE IF e > 0 THEN "Infinity" ELSE "-Infinity",
                   num |-> 0, den |-> 1]
             ELSE IF s > 0 THEN [kind |-> "number", num |-> (e - s) * 100, den |-> s]
             ELSE [kind |-> "number", num |-> (s - e) * 100, den |-> 0 - s]

\* perf >= 0 in JavaScript: false for NaN
NonNegative(perf) ==
    perf.kind = "Infinity" \/ (perf.kind = "number" /\ perf.num >= 0)

NoOverlay == [shown |-> FALSE, perf |-> [kind |-> "none", num |-> 0, den |-> 1],
              colour |-> "none"]

\* performanceOverlayPlugin.afterDraw on the slice filterData() gave: the
\* text it draws, if any, and its fill colour
PerformanceOverlay(data) ==
    IF Len(data) = 0 THEN [NoOverlay EXCEPT !.perf = CalculatePerformance(data)]
    ELSE [shown  |-> TRUE,
          perf   |-> CalculatePerformance(data),
          colour |-> IF NonNegative(CalculatePerformance(data)) THEN "#16c784" ELSE "#ea3943"]

NoRender == [by |-> "none", ctl |-> "none", had |-> FALSE, threw |-> FALSE, out |-> <<>>,
             overlay |-> NoOverlay, axis |-> [unit |-> "none", callback |-> "none"]]

ACall(at, body) == [pc |-> at, body |-> body]

\* A call that ended in a rejected promise
Failed(c) == c.pc \in {"rejected", "unparsed", "threw"}

\* An ensureLoaded() that remembers having asked and never asks again
EnsureLoadedOnce == IF fetches = 0 THEN "fetch" ELSE "ensured"

\* ensureLoaded() up to its await: fetch is issued only while the cache is null
EnsureLoaded == IF ~goldData.set THEN "fetch" ELSE "ensured"

\* loadReviewBtcVsGold(), 611-623, up to its first await; an initialized
\* module renders at once
LoadCall ==
    /\ Len(calls) < MaxCalls
    /\ IF ~initialized
       THEN /\ calls' = Append(calls, ACall(EnsureLoaded, <<>>))
            /\ fetches' = IF EnsureLoaded = "fetch" THEN fetches + 1 ELSE fetches
            /\ UNCHANGED <<chart, constructed>>
       ELSE /\ \E C \in {UpdateChart(CurChart)} :
                 /\ calls' = Append(calls, ACall(IF C.threw THEN "threw" ELSE "done", <<>>))
                 /\ SetChart(C)
            /\ UNCHANGED fetches
    /\ render' = [NoRender EXCEPT !.by = "load"]
    /\ UNCHANGED <<goldData, initialized, bound, canvas, dom, fiat, state, yearOptions, changes, routerVars>>

SetCall(k, c) == calls' = [calls EXCEPT ![k] = c]

\* loadJSONL, 169-172: the response arrives; a status that is not ok throws,
\* which fails ensureLoaded and the load call
Response ==
    \E k \in DOMAIN calls :
        /\ calls[k].pc = "fetch"
        /\ \E ok \in BOOLEAN :
             SetCall(k, ACall(IF ok THEN "text" ELSE "rejected", <<>>))
        /\ render' = [NoRender EXCEPT !.by = "load"]
        /\ UNCHANGED <<goldData, chart, initialized, bound, canvas, dom, fiat, fetches, constructed,
                       state, yearOptions, changes, routerVars>>

\* loadJSONL, 174-181: the body arrives and is parsed line by line; a line
\* JSON.parse rejects throws
ReadBody ==
    \E k \in DOMAIN calls :
        /\ calls[k].pc = "text"
        /\ \E body \in Payloads :
             SetCall(k, IF ParseOk(body) THEN ACall("parsed", ParsePoints(body))
                        ELSE ACall("unparsed", <<>>))
        /\ render' = [NoRender EXCEPT !.by = "load"]
        /\ UNCHANGED <<goldData, chart, initialized, bound, canvas, dom, fiat, fetches, constructed,
                       state, yearOptions, changes, routerVars>>

\* A bindControls() that assigns onchange without testing for the element:
\* it throws at the first control the page lacks
BindControlsUnguarded(present) ==
    [threw |-> ~(ControlIds \subseteq present), handlers |-> ControlIds \cap present]

\* bindControls(), 465-577: each handler is assigned only if its element was
\* found
BindControls(present) == [threw |-> FALSE, handlers |-> ControlIds \cap present]

\* ensureLoaded, 187: the awaited series is assigned to the cache
EnsureResume ==
    \E k \in DOMAIN calls :
        /\ calls[k].pc = "parsed"
        /\ goldData' = [set |-> TRUE, points |-> calls[k].body]
        /\ SetCall(k, ACall("ensured", <<>>))
        /\ render' = [NoRender EXCEPT !.by = "load"]
        /\ UNCHANGED <<chart, initialized, bound, canvas, dom, fiat, fetches, constructed,
                       state, yearOptions, changes, routerVars>>

\* loadReviewBtcVsGold, 616-622, after its await: populateYearSelect,
\* bindControls, initialized = true, updateChart
LoadResume ==
    \E k \in DOMAIN calls :
        /\ calls[k].pc = "ensured"
        /\ yearOptions' = PopulateYearSelect(goldData, yearOptions)
        /\ \E b \in {BindControls(dom.present)} :
             /\ dom' = [dom EXCEPT !.handlers = @ \cup b.handlers]
             /\ IF b.threw
                THEN /\ SetCall(k, ACall("threw", <<>>))
                     /\ UNCHANGED <<bound, initialized, chart, constructed>>
                ELSE /\ bound' = TRUE
                     /\ initialized' = TRUE
                     /\ \E C \in {UpdateChart(CurChart)} :
                          /\ SetChart(C)
                          /\ SetCall(k, ACall(IF C.threw THEN "threw" ELSE "done", <<>>))
        /\ render' = [NoRender EXCEPT !.by = "load"]
        /\ UNCHANGED <<goldData, canvas, fiat, fetches, state, changes, routerVars>>

(***************************************************************************)
(* The control handlers bindControls assigns (465-577).  Each one writes   *)
(* its field of reviewGoldState and calls updateChart().                   *)
(***************************************************************************)
\* values the page's controls offer
TimeModes      == {"all", "year", "halving", "custom"}
HalvingOptions == {"2012_2016", "2024_now"}
DateInputs     == {"", "2012-11-28", "2013-06-01"}

\* The handler of control ctl, having written st, runs updateChart()
Change(ctl, st) ==
    /\ bound
    /\ ctl \in dom.handlers
    /\ state' = st
    /\ \E C \in {UpdateChart([CurChart EXCEPT !.st = st])} :
         /\ SetChart(C)
         /\ render' = [NoRender EXCEPT !.by = "control",
                                       !.ctl = ctl,
                                       !.had = chart.set /\ goldData.set /\ canvas,
                                       !.threw = C.threw]
    /\ UNCHANGED <<goldData, initialized, bound, canvas, fiat, calls, fetches, yearOptions,
                   routerVars>>

\* The mode whose controls a container holds
GroupMode(g) ==
    CASE g = "review-gold-year-control"    -> "year"
      [] g = "review-gold-halving-control" -> "halving"
      [] g = "review-gold-custom-control"  -> "custom"

\* A mode change that hides containers and shows none
ToggleHiddenNeverShows(v) ==
    dom.hidden \cup {g \in GroupIds \cap dom.present : GroupMode(g) # v}

\* classList.toggle('review-control-hidden', v !== mode) on each container
\* that was found, 518-531
ToggleHidden(v) == {g \in GroupIds \cap dom.present : GroupMode(g) # v}

TimeModeChange ==
    \E v \in TimeModes :
        /\ Change("review-gold-time-mode-select", [state EXCEPT !.timeMode = v])
        /\ dom' = [dom EXCEPT !.hidden = ToggleHidden(v)]

\* A year change that also switches the mode to year
YearChangeSetsMode ==
    \E v \in yearOptions :
        /\ Change("review-gold-year-select",
                  [state EXCEPT !.year = Some(NumberOf(v)), !.timeMode = "year"])
        /\ UNCHANGED dom

YearChange ==
    \E v \in yearOptions :
        /\ Change("review-gold-year-select", [state EXCEPT !.year = Some(NumberOf(v))])
        /\ UNCHANGED dom

HalvingChange ==
    \E v \in HalvingOptions :
        /\ Change("review-gold-halving-select", [state EXCEPT !.halvingCycle = Some(v)])
        /\ UNCHANGED dom

\* A toggle that also puts the mode back to all
LogToggleResetsMode ==
    \E v \in BOOLEAN :
        /\ Change("review-gold-log-toggle", [state EXCEPT !.logScale = v, !.timeMode = "all"])
        /\ UNCHANGED dom

LogToggle ==
    \E v \in BOOLEAN :
        /\ Change("review-gold-log-toggle", [state EXCEPT !.logScale = v])
        /\ UNCHANGED dom

StartChange ==
    \E v \in DateInputs :
        /\ Change("review-gold-date-start", [state EXCEPT !.customStart = Some(v)])
        /\ UNCHANGED dom

EndChange ==
    \E v \in DateInputs :
        /\ Change("review-gold-date-end", [state EXCEPT !.customEnd = Some(v)])
        /\ UNCHANGED dom

\* A control event counted against the bound, and one that is not counted
Counted   == changes < MaxChanges /\ changes' = changes + 1
Uncounted == UNCHANGED changes

LoadInit ==
    /\ canvas \in BOOLEAN
    /\ LoadStart
    /\ history = FreshHistory
    /\ missing = {}
    /\ pc = "ready"
    /\ events = 0
    /\ RouterStart

LoadNext ==
    \/ LoadCall
    \/ Response
    \/ ReadBody
    \/ EnsureResume
    \/ LoadResume
    \/ Counted /\ TimeModeChange
    \/ Counted /\ YearChange
    \/ Counted /\ HalvingChange
    \/ Counted /\ LogToggle
    \/ Counted /\ StartChange
    \/ Counted /\ EndChange

LoadSpec == LoadInit /\ [][LoadNext]_vars

(***************************************************************************)
(* The controls of a page whose first load has completed.                  *)
(***************************************************************************)
\* The module after one successful loadReviewBtcVsGold() that read body
Loaded(body) ==
    LET data == [set |-> TRUE, points |-> ParsePoints(body)]
        C    == UpdateChart([goldData |-> data, chart |-> NoChart, constructed |-> 0,
                             st |-> InitialState, threw |-> FALSE])
    IN  /\ goldData = data
        /\ chart = C.chart
        /\ constructed = C.constructed
        /\ initialized = TRUE
        /\ bound = TRUE
        /\ calls = <<ACall("done", <<>>)>>
        /\ fetches = 1
        /\ state = InitialState
        /\ yearOptions = PopulateYearSelect(data, {})
        /\ changes = 0
        /\ render = NoRender

ControlInit ==
    /\ canvas = TRUE
    /\ fiat = FiatStart
    /\ dom \in [present : {ControlIds \cup GroupIds}, handlers : {ControlIds},
                 hidden : SUBSET GroupIds]
    /\ \E body \in {b \in Payloads : ParseOk(b)} : Loaded(body)
    /\ history = FreshHistory
    /\ missing = {}
    /\ pc = "ready"
    /\ events = 0
    /\ RouterStart

ControlNext ==
    \/ Uncounted /\ TimeModeChange
    \/ Uncounted /\ YearChange
    \/ Uncounted /\ HalvingChange
    \/ Uncounted /\ LogToggle
    \/ Uncounted /\ StartChange
    \/ Uncounted /\ EndChange

ControlSpec == ControlInit /\ [][ControlNext]_vars

(***************************************************************************)
(* The first load and the controls of a page that lacks some of the        *)
(* elements the script looks up.                                           *)
(***************************************************************************)
PartialInit ==
    /\ canvas \in BOOLEAN
    /\ \E P \in SUBSET (ControlIds \cup GroupIds) :
         dom = [present |-> P, handlers |-> {}, hidden |-> GroupIds \cap P]
    /\ ModuleStart
    /\ history = FreshHistory
    /\ missing = {}
    /\ pc = "ready"
    /\ events = 0
    /\ RouterStart

PartialNext ==
    \/ Len(calls) = 0 /\ LoadCall
    \/ Response
    \/ ReadBody
    \/ EnsureResume
    \/ LoadResume
    \/ Counted /\ TimeModeChange
    \/ Counted /\ YearChange
    \/ Counted /\ HalvingChange
    \/ Counted /\ LogToggle
    \/ Counted /\ StartChange
    \/ Counted /\ EndChange

PartialSpec == PartialInit /\ [][PartialNext]_vars

(***************************************************************************)
(* One page session: the first load, then control changes without bound    *)
(* and further loadReviewBtcVsGold() calls of the initialized module.      *)
(***************************************************************************)
SessionNext ==
    \/ (Len(calls) = 0 \/ initialized) /\ LoadCall
    \/ Response
    \/ ReadBody
    \/ EnsureResume
    \/ LoadResume
    \/ Uncounted /\ TimeModeChange
    \/ Uncounted /\ YearChange
    \/ Uncounted /\ HalvingChange
    \/ Uncounted /\ LogToggle
    \/ Uncounted /\ StartChange
    \/ Uncounted /\ EndChange

SessionSpec == LoadInit /\ [][SessionNext]_vars

(***************************************************************************)
(* REVIEW_BTC_VS_FIAT.js (src/unnamed/part_000): one cache slot for each   *)
(* of three files, filled one after the other by ensureDataLoaded.  A call *)
(* is [pc, src, n]: where it stands, the slot it is waiting for and the    *)
(* number of that request.                                                 *)
(***************************************************************************)
\* ensureDataLoaded that requests every file from slot s on, cached or not
NextEmptyUntested(cache, s) == IF s <= 3 THEN s ELSE 4

\* ensureDataLoaded, 61-68: the first slot from s on that is still null, 4
\* when there is none
NextEmpty(cache, s) ==
    IF \E k \in s..3 : cache[k] = <<>>
    THEN CHOOSE k \in s..3 : cache[k] = <<>> /\ \A j \in s..k - 1 : cache[j] # <<>>
    ELSE 4

\* ensureDataLoaded runs on from slot s in call k until its next await
FiatProceed(F, k, s) ==
    LET n == NextEmpty(F.cache, s)
    IN  IF n = 4 THEN [F EXCEPT !.calls[k] = [pc |-> "ensured", src |-> 4, n |-> 0]]
        ELSE [F EXCEPT !.calls[k] = [pc |-> "fetch", src |-> n, n |-> F.fetches[n] + 1],
                       !.fetches[n] = @ + 1]

\* loadReviewBtcVsFiat(), 149-155, up to its first await
FiatLoadCall ==
    /\ Len(fiat.calls) < MaxCalls
    /\ \E F \in {[fiat EXCEPT !.calls = Append(@, [pc |-> "done", src |-> 0, n |-> 0])]} :
         fiat' = IF fiat.initialized THEN F ELSE FiatProceed(F, Len(F.calls), 1)
    /\ UNCHANGED <<goldData, chart, initialized, bound, canvas, dom, calls, fetches,
                   constructed, state, yearOptions, changes, render, routerVars>>

\* loadJSONL, 51-59, settles: a delivered series is assigned to the slot and
\* ensureDataLoaded runs on; a failure rejects the call
FiatResponse ==
    /\ \E k \in DOMAIN fiat.calls :
         /\ fiat.calls[k].pc = "fetch"
         /\ \E ok \in BOOLEAN :
              fiat' = IF ok
                      THEN FiatProceed([fiat EXCEPT !.cache[fiat.calls[k].src] =
                                                        <<fiat.calls[k].n>>],
                                       k, fiat.calls[k].src + 1)
                      ELSE [fiat EXCEPT !.calls[k].pc = "threw"]
    /\ UNCHANGED <<goldData, chart, initialized, bound, canvas, dom, calls, fetches,
                   constructed, state, yearOptions, changes, render, routerVars>>

\* loadReviewBtcVsFiat, 151-154, after its await
FiatResume ==
    /\ \E k \in DOMAIN fiat.calls :
         /\ fiat.calls[k].pc = "ensured"
         /\ fiat' = [fiat EXCEPT !.initialized = TRUE, !.calls[k].pc = "done"]
    /\ UNCHANGED <<goldData, chart, initialized, bound, canvas, dom, calls, fetches,
                   constructed, state, yearOptions, changes, render, routerVars>>

FiatInit ==
    /\ canvas = TRUE
    /\ LoadStart
    /\ history = FreshHistory
    /\ missing = {}
    /\ pc = "ready"
    /\ events = 0
    /\ RouterStart

FiatSpec == FiatInit /\ [][FiatLoadCall \/ FiatResponse \/ FiatResume]_vars

(***************************************************************************)
(* filterData() applied to a cached series under a filter state.           *)
(***************************************************************************)
\* date texts a date input may hold
DateTexts ==
    {"", "2012-11-28", "2013-06-01", "2013-11-27", "2013-11-28", "2016-07-09",
     "2017-11-26", "2017-11-27", "2020-05-11"}

FilterStates ==
    [timeMode     : TimeModes,
     year         : {Null, Some(0), Some(2012), Some(2013)},
     halvingCycle : {Null, Some(""), Some("2028_2032")}
                        \cup {Some(k) : k \in DOMAIN HALVING_RANGES},
     logScale     : BOOLEAN,
     customStart  : {Null} \cup {Some(d) : d \in DateTexts},
     customEnd    : {Null} \cup {Some(d) : d \in DateTexts}]

FilterInit ==
    /\ canvas = TRUE
    /\ fiat = FiatStart
    /\ dom = [FullPage EXCEPT !.handlers = ControlIds]
    /\ \E body \in {b \in Payloads : ParseOk(b)} :
         goldData = [set |-> TRUE, points |-> ParsePoints(body)]
    /\ state \in FilterStates
    /\ chart = NoChart
    /\ constructed = 0
    /\ initialized = TRUE
    /\ bound = TRUE
    /\ calls = <<>>
    /\ fetches = 0
    /\ yearOptions = {}
    /\ changes = 0
    /\ render = NoRender
    /\ history = FreshHistory
    /\ missing = {}
    /\ pc = "ready"
    /\ events = 0
    /\ RouterStart

ApplyFilter ==
    /\ render.by = "none"
    /\ \E f \in {FilterData(goldData.points, state)} :
         render' = [NoRender EXCEPT !.by = "filter", !.threw = f.threw, !.out = f.data]
    /\ UNCHANGED <<goldData, chart, initialized, bound, canvas, dom, fiat, calls, fetches, constructed,
                   state, yearOptions, changes, routerVars>>

\* performanceOverlayPlugin.afterDraw, 269-302: a draw of the chart filters
\* the cached series again and draws the performance of that slice
AfterDraw ==
    /\ render.by = "none"
    /\ \E f \in {FilterData(goldData.points, state)} :
         render' = [NoRender EXCEPT !.by = "overlay", !.threw = f.threw, !.out = f.data,
                                    !.overlay = IF f.threw THEN NoOverlay
                                                ELSE PerformanceOverlay(f.data)]
    /\ UNCHANGED <<goldData, chart, initialized, bound, canvas, dom, fiat, calls, fetches, constructed,
                   state, yearOptions, changes, routerVars>>

\* updateChart, 337-342: getTimeScaleConfig on the slice filterData() gave
Advise ==
    /\ render.by = "none"
    /\ \E f \in {FilterData(goldData.points, state)} :
         render' = [NoRender EXCEPT !.by = "axis", !.threw = f.threw, !.out = f.data,
                                    !.axis = IF f.threw THEN NoRender.axis
                                             ELSE GetTimeScaleConfig(f.data, state)]
    /\ UNCHANGED <<goldData, chart, initialized, bound, canvas, dom, fiat, calls, fetches, constructed,
                   state, yearOptions, changes, routerVars>>

FilterSpec == FilterInit /\ [][ApplyFilter \/ AfterDraw \/ Advise]_vars

(***************************************************************************)
(* Properties of the router                                                *)
(***************************************************************************)
AppliedRoute == ROUTES[RouteIndex(applied.path)]

Rank(level) == CASE level = "tab" -> 1 [] level = "subtab" -> 2 [] level = "subsubtab" -> 3

\* The history entry the browser is at
CurrentEntry == history.entries[history.cur]

\* C1: while a path of the table is being applied and nothing else happens,
\* from the start of the call until its last timer has run, the call and its
\* timers push nothing onto history.
C1_NoPushWhileApplying ==
    (applied.called /\ IsRouteKey(applied.path) /\ applied.solo) => ~applied.pushed

\* C2: during an application the flag is set as long as a specified level is
\* still to be activated, and every activation of the call ran with it set.
C2_FlagSetWhileApplying ==
    applied.called =>
        /\ \A k \in DOMAIN applied.acts : applied.acts[k].flag
        /\ Len(applied.acts) < Len(Levels(AppliedRoute)) => routerActive

\* C3: a click on a tab, subtab or sub-subtab control that is dispatched while
\* the flag is set pushes nothing.
C3_NoPushWhileFlagSet ==
    \A k \in DOMAIN lastEvent.clicks :
        lastEvent.clicks[k].flag => ~lastEvent.clicks[k].pushed

\* C4: routeTo called with a path that is not a key of the table activates
\* nothing and changes neither flag, navigation state, timers nor history.
C4_UnknownPathIsNoop ==
    (lastEvent.kind = "call" /\ ~IsRouteKey(lastEvent.path)) =>
        (lastEvent.noop /\ lastEvent.clicks = <<>>)

\* The activations an entry asks for, top down
Activations(r) ==
    [k \in DOMAIN Levels(r) |-> [level |-> Levels(r)[k], id |-> r[Levels(r)[k]]]]

\* The activations the latest routeTo call has made so far
AppliedActivations ==
    [k \in DOMAIN applied.acts |-> [level |-> applied.acts[k].level, id |-> applied.acts[k].id]]

\* C5: once a path of the table is applied on a complete page with nothing
\* interleaved, its timers eventually have run, the call has activated exactly
\* the controls its entry names and the navigation state is the triple of its
\* entry.
C5_ApplyReachesTriple ==
    applied.called ~> /\ timers = <<>>
                      /\ AppliedActivations = Activations(AppliedRoute)
                      /\ nav = Triple(AppliedRoute)

C5_Witness ==
    /\ applied.called
    /\ applied.path = "metrics/tx-amount/24h"
    /\ timers = <<>>
    /\ nav = [tab |-> "metrics", subtab |-> "METRICS_BTC_TX_AMOUNT",
              subsubtab |-> "METRICS_BTC_TX_AMOUNT_24H"]

\* C6: for every entry of the table, the click listener of the entry's deepest
\* level, given that level's control, pushes the entry's own path: the reverse
\* lookup leads back to the entry.
C6_RoundTrip ==
    lastEvent.kind = "click" =>
        /\ lastEvent.clicks[1].pushed
        /\ CurrentEntry.state = applied.path
        /\ RoutesGet(CurrentEntry.state) = RoutesGet(AppliedRoute.path)

C6_Witness ==
    /\ lastEvent.kind = "click"
    /\ applied.path = "metrics/difficulty"
    /\ CurrentEntry.state = "metrics/difficulty"

C8_LoadAppliesOnlyKeys ==
    lastEvent.kind = "load" =>
        LET path == Join(StripSlashes(history.entries[1].url))
        IN  /\ applied.called <=> IsRouteKey(path)
            /\ ~IsRouteKey(path) => (lastEvent.noop /\ lastEvent.clicks = <<>>)

\* C9: the activations of one routeTo call happen in the order tab, subtab,
\* sub-subtab; the tab is activated inside the call itself, the others only in
\* later steps.
C9_ActivationsInOrder ==
    LET a == applied.acts
    IN  /\ a # <<>> => a[1].level = "tab"
        /\ \A k, l \in DOMAIN a : k < l => Rank(a[k].level) < Rank(a[l].level)
        /\ lastEvent.call => \A k \in DOMAIN a : a[k].level = "tab"
        /\ (lastEvent.call /\ IsRouteKey(applied.path)
              /\ QuerySelector("tab", AppliedRoute.tab)) => Len(a) = 1

C9_Witness ==
    /\ Len(applied.acts) = 3
    /\ applied.acts[3].level = "subsubtab"
    /\ applied.path = "metrics/tx-amount/24h"

(***************************************************************************)
(* Properties of the series cache                                          *)
(***************************************************************************)
\* C10: when every load call made has completed and none has failed, the
\* series file has been fetched at most once.
C10_RetrievedAtMostOnce ==
    (calls # <<>> /\ \A k \in DOMAIN calls : calls[k].pc = "done") => fetches <= 1

\* C11: once the cache holds a series, no step replaces, clears or changes it.
C11_CacheWriteOnce == [][goldData.set => goldData' = goldData]_vars

\* Every load call made so far ended with a response that was not ok
AllRejected == calls # <<>> /\ \A k \in DOMAIN calls : calls[k].pc = "rejected"

\* C12: while every load call has ended with a non-success status the cache is
\* empty, the module uninitialized, no chart exists and no control is bound;
\* the next load call then issues the retrieval again; and a call that
\* completes after a rejected one leaves the series cached, the module
\* initialized and the chart rendered.
C12_RetryAfterFailedRetrieval ==
    /\ [](AllRejected =>
            /\ ~goldData.set /\ ~initialized /\ ~bound
            /\ ~chart.set /\ constructed = 0)
    /\ [](\A j, k \in DOMAIN calls :
            (j < k /\ calls[j].pc = "rejected" /\ calls[k].pc = "done") =>
                /\ goldData.set /\ initialized /\ bound
                /\ canvas => (chart.set /\ constructed = 1))
    /\ [][(AllRejected /\ Len(calls') > Len(calls)) =>
            (fetches' = fetches + 1 /\ calls'[Len(calls')].pc = "fetch")]_vars

C12_Witness ==
    /\ Len(calls) = 2
    /\ calls[1].pc = "rejected"
    /\ calls[2].pc = "done"
    /\ fetches = 2
    /\ goldData.set
    /\ chart.set

\* The series a payload without a bad line parses to
GoodSeries == {ParsePoints(b) : b \in {p \in Payloads : \A k \in DOMAIN SplitLines(p) : SplitLines(p)[k].ok}}

\* C13: a payload with a line that does not parse fails the load call as a
\* whole: the cache and every parsed result in flight is the series of a
\* payload all of whose lines parse, never the readable part of another one,
\* and while every call has failed to parse the cache is empty.
C13_ParseFailureIsWhole ==
    /\ goldData.set => goldData.points \in GoodSeries
    /\ \A k \in DOMAIN calls : calls[k].pc = "parsed" => calls[k].body \in GoodSeries
    /\ (calls # <<>> /\ \A k \in DOMAIN calls : calls[k].pc = "unparsed") =>
            (~goldData.set /\ ~initialized /\ ~chart.set)

C13_Witness ==
    /\ Len(calls) = 2
    /\ calls[1].pc = "unparsed"
    /\ calls[2].pc = "unparsed"
    /\ fetches = 2
    /\ ~goldData.set

\* C14: over load calls, overlapping ones included, and control events, the
\* chart is constructed at most once, and an existing chart stays the instance.
C14_OneChartInstance ==
    /\ constructed <= 1
    /\ chart.set <=> constructed = 1

C14_Witness ==
    /\ constructed = 1
    /\ Len(calls) = 2
    /\ calls[1].pc = "done"
    /\ calls[2].pc = "done"
    /\ fetches = 2
    /\ changes = 1

(***************************************************************************)
(* Properties of the controls                                              *)
(***************************************************************************)
\* C15: after a control event handled with data loaded and a chart existing,
\* the chart shows filterData of the series under the new state, the empty
\* sequence included.
C15_ChartShowsFilteredData ==
    (render.by = "control" /\ render.had) =>
        chart.data = FilterData(goldData.points, state).data

\* C16: after a control event handled with data loaded and a chart existing,
\* the unit and the label form of the chart's time axis are those
\* getTimeScaleConfig gives for the filtered series and the new state.
C16_AxisFollowsFilter ==
    (render.by = "control" /\ render.had) =>
        LET cfg == GetTimeScaleConfig(FilterData(goldData.points, state).data, state)
        IN  chart.unit = cfg.unit /\ chart.callback = cfg.callback

(***************************************************************************)
(* Properties of filterData                                                *)
(***************************************************************************)
\* The selector of the state's mode is unset (null, or the empty value of its
\* control), or the mode is all
Unselective(st) ==
    \/ st.timeMode = "all"
    \/ st.timeMode = "year" /\ st.year \in {Null, Some(0)}
    \/ st.timeMode = "halving" /\ st.halvingCycle \in {Null, Some("")}
    \/ st.timeMode = "custom" /\ (st.customStart \in {Null, Some("")}
                                    \/ st.customEnd \in {Null, Some("")})

\* C17: filterData returns the series unchanged in mode all and in the modes
\* year, halving and custom while their selector is unset, whatever the other
\* fields hold.
C17_IdentityWhenUnselective ==
    (render.by = "filter" /\ Unselective(state)) =>
        (~render.threw /\ render.out = goldData.points)

C17_Witness ==
    /\ render.by = "filter"
    /\ state.timeMode = "custom"
    /\ state.customStart = Null
    /\ state.customEnd = Some("2012-11-28")
    /\ state.year = Some(2012)
    /\ state.halvingCycle = Some("2012_2016")
    /\ Len(render.out) = 6

\* C18: in mode halving with a cycle id that is set and is no key of the
\* catalog, filterData returns the series unchanged and throws nothing.
C18_UnknownRangeActsAsAll ==
    (/\ render.by = "filter"
     /\ state.timeMode = "halving"
     /\ TruthyString(state.halvingCycle)
     /\ state.halvingCycle[1] \notin DOMAIN HALVING_RANGES) =>
        (~render.threw /\ render.out = goldData.points)

\* C19: in mode custom, filterData gives the same result with customStart and
\* customEnd exchanged.
C19_SwapInvariant ==
    (render.by = "filter" /\ state.timeMode = "custom") =>
        LET swapped == FilterData(goldData.points,
                                  [state EXCEPT !.customStart = state.customEnd,
                                                !.customEnd = state.customStart])
        IN  swapped.threw = render.threw /\ swapped.data = render.out

C19_Witness ==
    /\ render.by = "filter"
    /\ state.timeMode = "custom"
    /\ state.customStart = Some("2016-07-09")
    /\ state.customEnd = Some("2012-11-28")
    /\ Len(goldData.points) = 6
    /\ Len(render.out) = 4

\* C20: in mode custom with both bounds set, filterData keeps exactly the
\* points whose UTC day lies between the day of the earlier bound and the day
\* of the later bound, both days whole and included.
C20_WholeDayInclusive ==
    (/\ render.by = "filter"
     /\ state.timeMode = "custom"
     /\ TruthyString(state.customStart)
     /\ TruthyString(state.customEnd)) =>
        LET a  == NewDate(state.customStart[1]).day
            b  == NewDate(state.customEnd[1]).day
            lo == IF a <= b THEN a ELSE b
            hi == IF a <= b THEN b ELSE a
            p  == goldData.points
        IN  /\ ~render.threw
            /\ render.out = Filter(p, {i \in DOMAIN p : lo <= p[i].x.day /\ p[i].x.day <= hi})

C20_Witness ==
    /\ render.by = "filter"
    /\ state.timeMode = "custom"
    /\ state.customStart = Some("2012-11-28")
    /\ state.customEnd = Some("2012-11-28")
    /\ Len(goldData.points) = 6
    /\ Len(render.out) = 2
    /\ render.out[2].x = T(NewDate("2012-11-28").day, DayMs - 1)

(***************************************************************************)
(* Properties of the filter, the overlay and the controls                  *)
(***************************************************************************)
\* A point of the cached series is among the filtered ones
Kept(p) == \E j \in DOMAIN render.out : render.out[j] = p

\* a is an instant strictly before b
Before(a, b) == a.day < b.day \/ (a.day = b.day /\ a.ms < b.ms)

\* A filterData() call in halving mode on a cycle of the catalog
NamedRangeCall ==
    /\ render.by = "filter"
    /\ state.timeMode = "halving"
    /\ TruthyString(state.halvingCycle)
    /\ state.halvingCycle[1] \in DOMAIN HALVING_RANGES

\* C21: in halving mode, for every cycle of the catalog, a point at the
\* cycle's start is kept, a point at a defined end is kept, points before the
\* start or after a defined end are dropped, and a cycle without an end keeps
\* every point from its start on.
C21_NamedRangeInclusive ==
    NamedRangeCall =>
        LET r     == HALVING_RANGES[state.halvingCycle[1]]
            start == NewDate(r[1])
        IN  \A i \in DOMAIN goldData.points :
                LET p == goldData.points[i]
                IN  /\ Before(p.x, start) => ~Kept(p)
                    /\ p.x = start => Kept(p)
                    /\ r[2] # Null =>
                          /\ p.x = NewDate(r[2][1]) => Kept(p)
                          /\ Before(NewDate(r[2][1]), p.x) => ~Kept(p)
                          /\ Before(start, p.x) /\ Before(p.x, NewDate(r[2][1])) => Kept(p)
                    /\ r[2] = Null /\ ~Before(p.x, start) => Kept(p)

\* Cycle 2012_2016 on a series with a point on its start, a point on its
\* end, one a millisecond before the start and one after the end
C21_Witness ==
    /\ NamedRangeCall
    /\ state.halvingCycle = Some("2012_2016")
    /\ Len(goldData.points) = 6
    /\ goldData.points[1].x = T(NewDate("2012-11-28").day - 1, DayMs - 1)
    /\ Len(render.out) = 4
    /\ render.out[1].x = NewDate("2012-11-28")
    /\ render.out[4].x = NewDate("2016-07-09")

\* The instant t lies in calendar year y of UTC
InYear(t, y) == YearStart(y) <= t.day /\ t.day < YearStart(y + 1)

\* A filterData() call in year mode with a year selected
YearCall ==
    /\ render.by = "filter"
    /\ state.timeMode = "year"
    /\ TruthyNumber(state.year)

\* C22: in year mode with a year selected the result is exactly the points
\* whose UTC calendar year is that year, in their order, whatever
\* halvingCycle, customStart and customEnd hold.
C22_YearKeepsExactlyThatYear ==
    YearCall =>
        /\ ~render.threw
        /\ render.out = Filter(goldData.points,
                               {i \in DOMAIN goldData.points :
                                    InYear(goldData.points[i].x, state.year[1])})

\* Year 2012 on a series with points on the last millisecond of 2012 and the
\* first of 2013, while a cycle and a custom range are set as well
C22_Witness ==
    /\ YearCall
    /\ state.year = Some(2012)
    /\ state.halvingCycle = Some("2016_2020")
    /\ state.customStart = Some("2016-07-09")
    /\ state.customEnd = Some("2017-11-27")
    /\ Len(goldData.points) = 8
    /\ goldData.points[3].x = T(YearStart(2013), 0)
    /\ Len(render.out) = 2
    /\ render.out[2].x = T(YearStart(2013) - 1, DayMs - 1)

\* a[i..] can be read off b[j..] by dropping elements and keeping the order
RECURSIVE SubseqFrom(_, _, _, _)
SubseqFrom(a, b, i, j) ==
    IF i > Len(a) THEN TRUE
    ELSE IF j > Len(b) THEN FALSE
    ELSE IF a[i] = b[j] THEN SubseqFrom(a, b, i + 1, j + 1)
    ELSE SubseqFrom(a, b, i, j + 1)

IsSubsequence(a, b) == SubseqFrom(a, b, 1, 1)

\* C23: for every mode and filter state the result filterData() returns is
\* the cached series with elements dropped and the order kept, and the call
\* leaves the cached series as it was.
C23_SubsequenceAndCacheKept ==
    /\ [](render.by = "filter" /\ ~render.threw
            => IsSubsequence(render.out, goldData.points))
    /\ [][render'.by = "filter" => goldData' = goldData]_vars

\* A custom range that drops the first and the last point of six and keeps
\* four
C23_Witness ==
    /\ render.by = "filter"
    /\ ~render.threw
    /\ state.timeMode = "custom"
    /\ Len(goldData.points) = 6
    /\ Len(render.out) = 4
    /\ render.out[1] = goldData.points[2]
    /\ render.out[4] = goldData.points[5]

\* A redraw on a slice that is not empty
OverlayCall == render.by = "overlay" /\ ~render.threw

\* C24: the overlay's value is (last - first) / first * 100 over the filtered
\* slice in index order; 100 then 150 gives 50; a single point gives 0; an
\* empty slice gives no value and no overlay; the colour is one for a value
\* that is not negative and another for a negative one.
C24_PerformanceOfSlice ==
    OverlayCall =>
        LET n    == Len(render.out)
            perf == render.overlay.perf
        IN  /\ n = 0 => perf.kind = "null" /\ ~render.overlay.shown
            /\ n = 1 => perf.kind = "number" /\ perf.num = 0
            /\ n > 0 /\ render.out[1].y # 0 =>
                  /\ render.overlay.shown
                  /\ perf.kind = "number"
                  /\ perf.num * render.out[1].y
                        = (render.out[n].y - render.out[1].y) * 100 * perf.den
                  /\ render.overlay.colour = (IF perf.num >= 0 THEN "#16c784" ELSE "#ea3943")
            /\ n > 0 /\ render.out[1].y = 100 /\ render.out[n].y = 150 =>
                  perf.num = 50 * perf.den

\* C25: a toggle between logarithmic and linear changes nothing of the chart
\* but the type of its y axis, in particular not the points of its dataset,
\* and leaves timeMode, year, halvingCycle, customStart and customEnd alone.
C25_ToggleChangesOnlyYType ==
    [][state'.logScale # state.logScale =>
          /\ chart' = [chart EXCEPT !.yType = chart'.yType]
          /\ state' = [state EXCEPT !.logScale = state'.logScale]
          /\ goldData' = goldData]_vars

\* The chart of a year slice after it has been put on the linear axis
C25_Witness ==
    /\ render.by = "control"
    /\ render.had
    /\ state.timeMode = "year"
    /\ state.year = Some(2012)
    /\ ~state.logScale
    /\ chart.yType = "linear"
    /\ Len(chart.data) > 0
    /\ Len(chart.data) < Len(goldData.points)

\* The span from the first to the last point of the slice is at least n
\* years of 365 days
SpanAtLeast(n) ==
    LET first == render.out[1].x
        last  == render.out[Len(render.out)].x
    IN  \/ last.day - first.day > 365 * n
        \/ last.day - first.day = 365 * n /\ last.ms >= first.ms

\* C26: the unit is quarter in mode all, month in modes year and halving,
\* whatever the span; in mode custom it is month for a span of the filtered
\* slice below one year, quarter from one year up to but not including five,
\* year from five years on, a year being 365 days; without data it is month
\* and there is no label function.
C26_GranularityByModeAndSpan ==
    (render.by = "axis" /\ ~render.threw) =>
        IF Len(render.out) = 0
        THEN render.axis.unit = "month" /\ render.axis.callback = "none"
        ELSE /\ render.axis.callback # "none"
             /\ render.axis.unit =
                    CASE state.timeMode = "all"     -> "quarter"
                      [] state.timeMode = "year"    -> "month"
                      [] state.timeMode = "halving" -> "month"
                      [] state.timeMode = "custom"  ->
                           IF SpanAtLeast(5) THEN "year"
                           ELSE IF SpanAtLeast(1) THEN "quarter"
                           ELSE "month"

\* A custom range whose slice spans exactly 365 days
C26_Witness ==
    /\ render.by = "axis"
    /\ state.timeMode = "custom"
    /\ state.customStart = Some("2012-11-28")
    /\ state.customEnd = Some("2013-11-28")
    /\ Len(render.out) = 5
    /\ render.out[5].x.day - render.out[1].x.day = 365
    /\ render.out[5].x.ms = render.out[1].x.ms
    /\ render.axis.unit = "quarter"

\* The containers that are on the page and not hidden
Visible == (GroupIds \cap dom.present) \ dom.hidden

\* C27 as stated, for the states a change of the mode select leaves: exactly
\* one of the three containers is visible, and it is the one of the active
\* mode.
C27_ExactlyOneGroupVisible ==
    (render.by = "control" /\ render.ctl = "review-gold-time-mode-select")
        => \E g \in GroupIds : Visible = {g} /\ GroupMode(g) = state.timeMode

\* C27: a change of the mode select leaves visible exactly the container of
\* the chosen mode, which is none in mode all, and hides the others; a change
\* of another control leaves the visibility of the containers as it was.
C27_ModeChangeShowsItsGroup ==
    [][render'.by = "control" =>
          IF render'.ctl = "review-gold-time-mode-select"
          THEN Visible' = {g \in GroupIds : GroupMode(g) = state'.timeMode}
          ELSE Visible' = Visible]_vars

\* The mode select was put on halving and only the halving container shows
C27_Witness ==
    /\ render.by = "control"
    /\ render.ctl = "review-gold-time-mode-select"
    /\ state.timeMode = "halving"
    /\ Visible = {"review-gold-halving-control"}

\* The field of reviewGoldState the handler of a control assigns
FieldOf(ctl) ==
    CASE ctl = "review-gold-time-mode-select" -> "timeMode"
      [] ctl = "review-gold-year-select"      -> "year"
      [] ctl = "review-gold-halving-select"   -> "halvingCycle"
      [] ctl = "review-gold-log-toggle"       -> "logScale"
      [] ctl = "review-gold-date-start"       -> "customStart"
      [] ctl = "review-gold-date-end"         -> "customEnd"

\* C28: a change of a control assigns the one field of reviewGoldState that
\* belongs to the control and leaves the other five as they were.
C28_OneFieldPerControl ==
    [][render'.by = "control" =>
          state' = [state EXCEPT ![FieldOf(render'.ctl)] = state'[FieldOf(render'.ctl)]]]_vars

\* A year chosen while the mode is custom and both dates are set
C28_Witness ==
    /\ render.by = "control"
    /\ render.ctl = "review-gold-year-select"
    /\ state.year = Some(2013)
    /\ state.timeMode = "custom"
    /\ state.customStart = Some("2012-11-28")
    /\ state.customEnd = Some("2013-06-01")
    /\ ~state.logScale

\* C29: whichever of the nine elements and the canvas the page lacks, no
\* load call ends in an exception, every control the page has is given its
\* handler, and a change of such a control assigns its field and renders the
\* slice of the new state when there is a canvas and the slice is not empty.
C29_AbsentElementsTolerated ==
    /\ [](/\ \A k \in DOMAIN calls : calls[k].pc # "threw"
          /\ ~render.threw
          /\ bound => dom.handlers = ControlIds \cap dom.present)
    /\ [][render'.by = "control" =>
            /\ render'.ctl \in dom.present
            /\ state' = [state EXCEPT ![FieldOf(render'.ctl)] = state'[FieldOf(render'.ctl)]]
            /\ (canvas /\ Len(FilterData(goldData.points, state').data) > 0)
                  => chart'.data = FilterData(goldData.points, state').data]_vars

\* A page with nothing but the scale toggle and the canvas: the load has
\* completed and the toggle has put the chart on the linear axis
C29_Witness ==
    /\ dom.present = {"review-gold-log-toggle"}
    /\ canvas
    /\ calls = <<ACall("done", <<>>)>>
    /\ render.by = "control"
    /\ render.ctl = "review-gold-log-toggle"
    /\ ~state.logScale
    /\ chart.set
    /\ chart.yType = "linear"

\* C30: after routeTo on a path of the table on a page that lacks a control
\* of that route, the flag is clear again once the calls and their timers
\* have run, so that a later sub-subtab click of the user pushes its path.
C30_FlagClearWhenSettled ==
    (pc = "ready" /\ timers = <<>> /\ applied.called /\ IsRouteKey(applied.path))
        => ~routerActive

(***************************************************************************)
(* Properties of the route table and of history navigation                 *)
(***************************************************************************)
\* C31: no two paths of the table have the same tab, subtab and sub-subtab:
\* whichever path routeTo was called with, every entry of the table with the
\* triple of that path is the entry of that path.  The table is never
\* written.
C31_TableInjectiveOnTriple ==
    applied.called =>
        \A i \in DOMAIN ROUTES :
            Triple(ROUTES[i]) = Triple(AppliedRoute) => ROUTES[i].path = applied.path

\* routeTo was called with a path that shares tab and subtab with five others
C31_Witness ==
    /\ applied.called
    /\ applied.path = "metrics/tx-volume"
    /\ timers = <<>>
    /\ nav = Triple(AppliedRoute)

\* C32: a back or forward step to an entry whose state carries a path calls
\* routeTo with that path, the empty path of the home route included; a step
\* to an entry without a path calls nothing and leaves the flag, the
\* navigation state and the pending timers as they were.
C32_BackForwardReplaysPath ==
    [][lastEvent'.kind = "popstate" =>
          \E to \in {history.cur - 1, history.cur + 1} \cap DOMAIN history.entries :
              IF history.entries[to].state # NoState
              THEN /\ lastEvent'.call
                   /\ lastEvent'.path = history.entries[to].state
                   /\ applied'.called
                   /\ applied'.path = history.entries[to].state
                   /\ \E S \in {RouteTo([Cur EXCEPT !.history.cur = to],
                                         <<history.entries[to].state>>)} :
                        nav' = S.nav /\ routerActive' = S.flag
              ELSE /\ ~lastEvent'.call
                   /\ routerActive' = routerActive
                   /\ nav' = nav
                   /\ timers' = timers
                   /\ history' = [history EXCEPT !.cur = to]]_vars

\* Back from metrics to the entry a click on the home tab pushed: its state
\* is the empty path, and routeTo was called with it
C32_Witness ==
    /\ lastEvent.kind = "popstate"
    /\ lastEvent.call
    /\ lastEvent.path = ""
    /\ applied.path = ""
    /\ nav.tab = "home"

(***************************************************************************)
(* Properties of the module with three cached series                      *)
(***************************************************************************)
\* C33: a request for a file is issued only while the slot of that file is
\* null, so a call after a failed one asks only for what is still missing; a
\* slot once filled stays filled, and a call that fails leaves the whole
\* cache as it was; the module is initialized only with all three slots
\* filled.
C33_FailedLoadKeepsCachedSeries ==
    /\ [](fiat.initialized => \A s \in 1..3 : fiat.cache[s] # <<>>)
    /\ [][/\ \A s \in 1..3 :
                (fiat'.fetches[s] # fiat.fetches[s] => fiat.cache[s] = <<>>)
          /\ \A s \in 1..3 :
                (fiat.cache[s] # <<>> => fiat'.cache[s] # <<>>)
          /\ (\E k \in DOMAIN fiat.calls :
                 fiat.calls[k].pc # "threw" /\ fiat'.calls[k].pc = "threw")
               => fiat'.cache = fiat.cache]_vars

\* The first call cached usd and failed on eur; the second call asked for eur
\* and not again for usd, and the module is not initialized
C33_Witness ==
    /\ Len(fiat.calls) = 2
    /\ fiat.calls[1] = [pc |-> "threw", src |-> 2, n |-> 1]
    /\ fiat.calls[2] = [pc |-> "fetch", src |-> 2, n |-> 2]
    /\ fiat.cache = <<<<1>>, <<>>, <<>>>>
    /\ fiat.fetches = <<1, 2, 0>>
    /\ ~fiat.initialized

\* C34: every sub-subtab activation a timer of routeTo makes, also one of a
\* call that another routeTo call has overlapped, is made with the flag set
\* and pushes nothing onto history.
C34_DelayedActivationUnderFlag ==
    lastEvent.kind = "timer" =>
        \A i \in DOMAIN lastEvent.clicks :
            lastEvent.clicks[i].level = "subsubtab" =>
                lastEvent.clicks[i].flag /\ ~lastEvent.clicks[i].pushed

(***************************************************************************)
(* Properties of the entries the router pushes                             *)
(***************************************************************************)
\* C35: every history entry pushed by a click listener has a state path that
\* is a key of ROUTES and the address "/" + that path, so a back/forward step
\* to a pushed entry calls routeTo with a path for which a route is found.
C35_PushedEntriesAreRoutes ==
    /\ \A i \in DOMAIN history.entries :
          history.entries[i].state # NoState =>
              /\ IsRouteKey(history.entries[i].state)
              /\ RoutesGet(history.entries[i].state).truthy
              /\ history.entries[i].url = <<"/", history.entries[i].state>>
    /\ (lastEvent.kind = "popstate" /\ lastEvent.call) =>
          /\ IsRouteKey(lastEvent.path)
          /\ RoutesGet(lastEvent.path).truthy
          /\ RoutesGet(lastEvent.path).tab \in TabIds

\* A click on the subtab METRICS_BTC_TX_AMOUNT pushed metrics/tx-amount, and a
\* later back/forward step to that entry called routeTo with its path
C35_Witness ==
    /\ lastEvent.kind = "popstate"
    /\ lastEvent.call
    /\ lastEvent.path = "metrics/tx-amount"
    /\ applied.path = "metrics/tx-amount"
    /\ \E i \in DOMAIN history.entries :
          history.entries[i] = [state |-> "metrics/tx-amount", url |-> <<"/", "metrics/tx-amount">>]

(***************************************************************************)
(* Properties of the overlay against the chart's dataset                   *)
(***************************************************************************)
\* No loader call stands between the assignment of the cache and its
\* updateChart(): those two run in consecutive microtasks, with no redraw
\* of the chart between them
BetweenTasks == \A k \in DOMAIN calls : calls[k].pc # "ensured"

\* A redraw of the chart in this state paints the overlay: afterDraw's
\* filterData() returns a slice that is not empty
OverlayPaints ==
    /\ chart.set
    /\ goldData.set
    /\ ~FilterData(goldData.points, state).threw
    /\ PerformanceOverlay(FilterData(goldData.points, state).data).shown

\* C36: whenever a redraw paints the performance overlay, the slice that
\* afterDraw derives from reviewGoldState is the dataset the chart holds, and
\* the percentage painted is the one of the chart's dataset.
C36_OverlaySliceIsDataset ==
    (BetweenTasks /\ OverlayPaints) =>
        /\ chart.data = FilterData(goldData.points, state).data
        /\ PerformanceOverlay(FilterData(goldData.points, state).data).perf
               = CalculatePerformance(chart.data)

\* A control change has replaced the dataset of an existing chart by a
\* proper part of the series, over which the overlay is painted
C36_Witness ==
    /\ render.by = "control"
    /\ render.had
    /\ OverlayPaints
    /\ Len(chart.data) < Len(goldData.points)
    /\ chart.data = FilterData(goldData.points, state).data

(***************************************************************************)
(* Invariants of the review module's state                                 *)
(***************************************************************************)
\* C37: in every reachable state, initialized implies that the cache is set;
\* a chart exists only with the cache set; bindControls has run, and a
\* control has a handler, only with the cache set; a set cache holds at least
\* one point; and the dataset of an existing chart is not empty.
C37_ControllerInvariants ==
    /\ initialized => goldData.set
    /\ chart.set => goldData.set
    /\ bound => goldData.set
    /\ dom.handlers # {} => goldData.set
    /\ goldData.set => Len(goldData.points) > 0
    /\ chart.set => Len(chart.data) > 0
    /\ ~chart.set => chart = NoChart

\* After a load, a control change asked for a slice that is empty: the chart
\* stays with the dataset it had
C37_Witness ==
    /\ initialized
    /\ bound
    /\ goldData.set
    /\ chart.set
    /\ render.by = "control"
    /\ render.had
    /\ ~render.threw
    /\ Len(FilterData(goldData.points, state).data) = 0
    /\ Len(chart.data) > 0

====
